---- MODULE Spec2Model ----
(***************************************************************************)
(* Model of the kg-explorer query engine (src/query-engine.js): the        *)
(* free-text dispatcher QueryEngine.query, its handlers and the matching   *)
(* helpers, over a small in-memory Graph Store.                            *)
(*                                                                         *)
(* Texts are TLA+ strings, i.e. sequences of characters: Len, SubSeq and   *)
(* \o act on them as on any sequence, so every regular expression of the   *)
(* source is evaluated character by character.                             *)
(*                                                                         *)
(* A query result is a record with the fields title, type and html and,    *)
(* when the handler sets them, chartConfig and mapHighlights (an absent    *)
(* field is absent from the record's DOMAIN).  html is the record of the    *)
(* values the handler interpolates into its HTML fragment.                 *)
(***************************************************************************)
EXTENDS Integers, Sequences, FiniteSets, TLC

VARIABLES engine, text, result

vars == <<engine, text, result>>

(***************************************************************************)
(* Bounds of the model.                                                    *)
(***************************************************************************)
MaxNodes == 3
MaxValue == 1
ManyNodes == 52

(***************************************************************************)
(* Characters and strings.                                                 *)
(***************************************************************************)
Ch(s, i) == SubSeq(s, i, i)

UpperLetters == "ABCDEFGHIJKLMNOPQRSTUVWXYZ"
LowerLetters == "abcdefghijklmnopqrstuvwxyz"
DigitChars == "0123456789"

CharSet(s) == {Ch(s, i) : i \in 1..Len(s)}

Digits == CharSet(DigitChars)
LowerSet == CharSet(LowerLetters)
UpperSet == CharSet(UpperLetters)

\* \w of a JavaScript regular expression
WordChars == LowerSet \cup UpperSet \cup Digits \cup {"_"}

\* \s of a JavaScript regular expression, and what String.prototype.trim strips
\* (restricted to the white space the model's texts use)
SpaceChars == {" ", "\t", "\n"}

IndexOfChar(s, c) == CHOOSE i \in 1..Len(s) : Ch(s, i) = c

LowerChar(c) == IF c \in UpperSet THEN Ch(LowerLetters, IndexOfChar(UpperLetters, c)) ELSE c

RECURSIVE toLowerCase(_)
toLowerCase(s) ==
    IF Len(s) = 0 THEN ""
    ELSE IF Len(s) = 1 THEN LowerChar(s)
    ELSE LET h == Len(s) \div 2
         IN  toLowerCase(SubSeq(s, 1, h)) \o toLowerCase(SubSeq(s, h + 1, Len(s)))

RECURSIVE trimStart(_)
trimStart(s) == IF Len(s) > 0 /\ Ch(s, 1) \in SpaceChars THEN trimStart(Tail(s)) ELSE s

RECURSIVE trimEnd(_)
trimEnd(s) ==
    IF Len(s) > 0 /\ Ch(s, Len(s)) \in SpaceChars THEN trimEnd(SubSeq(s, 1, Len(s) - 1)) ELSE s

\* a trim that strips nothing
trim_Identity(s) == s

\* String.prototype.trim
trim(s) == trimEnd(trimStart(s))

\* the positions at which p occurs in t
Occ(t, p) == {i \in 1..(Len(t) - Len(p) + 1) : SubSeq(t, i, i + Len(p) - 1) = p}

\* String.prototype.includes
includes(t, p) == \E i \in 1..(Len(t) - Len(p) + 1) : SubSeq(t, i, i + Len(p) - 1) = p

\* \b between the characters i-1 and i of t (i in 1..Len(t)+1)
Boundary(t, i) ==
    LET before == i > 1 /\ Ch(t, i - 1) \in WordChars
        after == i <= Len(t) /\ Ch(t, i) \in WordChars
    IN  before # after

\* /\bp\b/, /\bp/ and /p\b/
HasWord(t, p) == \E i \in Occ(t, p) : Boundary(t, i) /\ Boundary(t, i + Len(p))
HasWordStart(t, p) == \E i \in Occ(t, p) : Boundary(t, i)
HasWordEnd(t, p) == \E i \in Occ(t, p) : Boundary(t, i + Len(p))

\* /p.*q/ for q in the set Q: '.' matches no line terminator
DotStar(t, p, Q) ==
    \E i \in Occ(t, p) : \E q \in Q : \E j \in Occ(t, q) :
        /\ j >= i + Len(p)
        /\ \A k \in (i + Len(p))..(j - 1) : Ch(t, k) # "\n"

\* /p\s*q/
SpaceStar(t, p, q) ==
    \E i \in Occ(t, p) : \E j \in Occ(t, q) :
        /\ j >= i + Len(p)
        /\ \A k \in (i + Len(p))..(j - 1) : Ch(t, k) \in SpaceChars

Min(S) == CHOOSE x \in S : \A y \in S : x <= y
Max(S) == CHOOSE x \in S : \A y \in S : x >= y

\* parseInt(s, 10) of a string of decimal digits
RECURSIVE parseInt(_)
parseInt(s) ==
    IF Len(s) = 0 THEN 0
    ELSE 10 * parseInt(SubSeq(s, 1, Len(s) - 1)) + (IndexOfChar(DigitChars, Ch(s, Len(s))) - 1)

\* String(n) of a non-negative integer
RECURSIVE NumToString(_)
NumToString(n) ==
    IF n < 10 THEN Ch(DigitChars, n + 1)
    ELSE NumToString(n \div 10) \o Ch(DigitChars, (n % 10) + 1)

(***************************************************************************)
(* Array.prototype.sort with a comparator that orders by a numeric key:    *)
(* the sort is stable, so the result lists the positions of keys by        *)
(* ascending key and, among equal keys, by ascending position.             *)
(***************************************************************************)
SortedPositions(keys) ==
    LET n == Len(keys)
        Rank(i) == Cardinality({j \in 1..n : keys[j] < keys[i] \/ (keys[j] = keys[i] /\ j < i)}) + 1
    IN  [r \in 1..n |-> CHOOSE i \in 1..n : Rank(i) = r]

\* arr.sort((a, b) => key(a) - key(b))
SortAscending(arr, keys) == LET pos == SortedPositions(keys) IN [r \in 1..Len(arr) |-> arr[pos[r]]]

\* arr.sort((a, b) => key(b) - key(a))
SortDescending(arr, keys) == SortAscending(arr, [i \in 1..Len(keys) |-> 0 - keys[i]])

\* the first element of seq that satisfies Test, as a one-element or empty sequence
FirstWhere(seq, Test(_)) ==
    LET hits == {i \in 1..Len(seq) : Test(seq[i])}
    IN  IF hits = {} THEN <<>> ELSE <<seq[Min(hits)]>>

\* JavaScript's null (a matcher's "no match")
null == "<null>"

(***************************************************************************)
(* Helper constants of the query engine.                                   *)
(***************************************************************************)
\* Object.keys(CAT_LABELS), in insertion order
CAT_KEYS ==
    <<"TransitOrientedDense", "TransitOriented", "LifestyleHub",
      "HighDensity", "StandardResidential", "Peripheral">>

CAT_LABELS ==
    [k \in {CAT_KEYS[i] : i \in 1..Len(CAT_KEYS)} |->
        CASE k = "TransitOrientedDense" -> "Transit-Oriented Dense"
          [] k = "TransitOriented" -> "Transit-Oriented"
          [] k = "LifestyleHub" -> "Lifestyle Hub"
          [] k = "HighDensity" -> "High Density"
          [] k = "StandardResidential" -> "Standard Residential"
          [] k = "Peripheral" -> "Peripheral"]

Categories == DOMAIN CAT_LABELS

\* METRICS: canonical metric name -> node field and label
METRICS ==
    [m \in {"energy", "gfa", "transit", "diversity", "buildings", "units", "levels", "bus", "mrt"} |->
        CASE m = "energy" -> [key |-> "e", label |-> "Energy (kWh/yr)", unit |-> "kWh/yr"]
          [] m = "gfa" -> [key |-> "gfa", label |-> "Gross Floor Area (m²)", unit |-> "m²"]
          [] m = "transit" -> [key |-> "ti", label |-> "Transit Index", unit |-> ""]
          [] m = "diversity" -> [key |-> "div", label |-> "Diversity Index", unit |-> ""]
          [] m = "buildings" -> [key |-> "b", label |-> "Buildings", unit |-> ""]
          [] m = "units" -> [key |-> "u", label |-> "Est. Residential Units", unit |-> ""]
          [] m = "levels" -> [key |-> "lvl", label |-> "Avg Building Levels", unit |-> ""]
          [] m = "bus" -> [key |-> "bd", label |-> "Bus Distance (m)", unit |-> "m"]
          [] m = "mrt" -> [key |-> "md", label |-> "MRT Distance (m)", unit |-> "m"]]

(***************************************************************************)
(* Matching helpers.                                                       *)
(***************************************************************************)
\* s.replace(/[^a-z0-9\s]/g, '')
RECURSIVE StripNonAlnum(_)
StripNonAlnum(s) ==
    IF Len(s) = 0 THEN ""
    ELSE IF Len(s) = 1 THEN (IF s \in LowerSet \cup Digits \cup SpaceChars THEN s ELSE "")
    ELSE LET h == Len(s) \div 2
         IN  StripNonAlnum(SubSeq(s, 1, h)) \o StripNonAlnum(SubSeq(s, h + 1, Len(s)))

\* s.replace(/-/g, '')
RECURSIVE StripHyphens(_)
StripHyphens(s) ==
    IF Len(s) = 0 THEN ""
    ELSE IF Len(s) = 1 THEN (IF s = "-" THEN "" ELSE s)
    ELSE LET h == Len(s) \div 2
         IN  StripHyphens(SubSeq(s, 1, h)) \o StripHyphens(SubSeq(s, h + 1, Len(s)))

\* the alias table of _matchCategory, in insertion order
labelMap ==
    << <<"transit oriented dense", "TransitOrientedDense">>,
       <<"transit-oriented dense", "TransitOrientedDense">>,
       <<"tod", "TransitOrientedDense">>,
       <<"transit oriented", "TransitOriented">>,
       <<"transit-oriented", "TransitOriented">>,
       <<"lifestyle hub", "LifestyleHub">>,
       <<"lifestyle", "LifestyleHub">>,
       <<"high density", "HighDensity">>,
       <<"highdensity", "HighDensity">>,
       <<"dense", "HighDensity">>,
       <<"standard residential", "StandardResidential">>,
       <<"standard", "StandardResidential">>,
       <<"residential", "StandardResidential">>,
       <<"peripheral", "Peripheral">> >>

\* Object.entries(labelMap).sort((a, b) => b[0].length - a[0].length)
sortedLabelMap == SortDescending(labelMap, [i \in 1..Len(labelMap) |-> Len(labelMap[i][1])])

\* QueryEngine._matchCategory
_matchCategory(txt) ==
    LET t == StripNonAlnum(toLowerCase(txt))
        KeyHit(key) == includes(t, toLowerCase(key))
        direct == FirstWhere(CAT_KEYS, KeyHit)
        AliasHit(entry) == includes(t, StripHyphens(entry[1]))
        alias == FirstWhere(sortedLabelMap, AliasHit)
    IN  IF direct # <<>> THEN direct[1]
        ELSE IF alias # <<>> THEN alias[1][2]
        ELSE null

\* QueryEngine._matchMetric
_matchMetric(txt) ==
    LET t == toLowerCase(txt)
    IN  IF HasWord(t, "energy") \/ includes(t, "consumption") \/ includes(t, "kwh") THEN "energy"
        ELSE IF HasWord(t, "gfa") \/ includes(t, "floor area") \/ includes(t, "gross floor") THEN "gfa"
        ELSE IF HasWord(t, "transit") \/ includes(t, "accessibility") THEN "transit"
        ELSE IF HasWordStart(t, "diversit") THEN "diversity"
        ELSE IF HasWordStart(t, "building") THEN "buildings"
        ELSE IF HasWord(t, "unit") \/ HasWord(t, "units") \/ includes(t, "residential") THEN "units"
        ELSE IF \/ HasWord(t, "level") \/ HasWord(t, "levels")
                \/ includes(t, "storey") \/ includes(t, "stories")
                \/ HasWordEnd(t, "floor") \/ HasWordEnd(t, "floors") THEN "levels"
        ELSE IF HasWord(t, "bus") \/ includes(t, "bus dist") THEN "bus"
        ELSE IF HasWord(t, "mrt") \/ includes(t, "mrt dist") \/ includes(t, "metro") THEN "mrt"
        ELSE null

\* the known facility types of _matchFacilityType
knownFacilityTypes ==
    <<"Bar", "Cafe", "Restaurant", "Hawker", "Garden", "Library", "Sport", "Museum",
      "ChildCare", "SocialService", "CommunityUseSite">>

\* QueryEngine._matchFacilityType (allFacilityTypes: the engine's set, in insertion order)
_matchFacilityType(allFacilityTypes, txt) ==
    LET t == toLowerCase(txt)
        Hit(ft) == includes(t, toLowerCase(ft))
        known == FirstWhere(knownFacilityTypes, Hit)
        live == FirstWhere(allFacilityTypes, Hit)
    IN  IF known # <<>> THEN known[1]
        ELSE IF \/ SpaceStar(t, "child", "care") \/ includes(t, "childcare")
                \/ includes(t, "daycare") \/ includes(t, "kindergarten") THEN "ChildCare"
        ELSE IF SpaceStar(t, "social", "service") THEN "SocialService"
        ELSE IF DotStar(t, "community", {"site", "use"}) THEN "CommunityUseSite"
        ELSE IF includes(t, "hawker") \/ includes(t, "hawkar") THEN "Hawker"
        ELSE IF includes(t, "park") \/ includes(t, "green") THEN "Garden"
        ELSE IF includes(t, "gym") \/ includes(t, "fitness") \/ includes(t, "swim") THEN "Sport"
        ELSE IF live # <<>> THEN live[1]
        ELSE null

(***************************************************************************)
(* JavaScript values of a node's numeric fields: a number, NaN, null, or   *)
(* undefined (also what reading an absent field gives).                    *)
(***************************************************************************)
JsNum(n) == [t |-> "number", v |-> n]
JsNaN == [t |-> "NaN"]
JsNull == [t |-> "null"]
undefined == [t |-> "undefined"]

\* d[key]
Field(d, key) == IF key \in DOMAIN d THEN d[key] ELSE undefined

\* x != null alone
IsPresent_NotNull(x) == x.t \in {"number", "NaN"}

\* x != null && !isNaN(x)
IsPresent(x) == x.t = "number"

\* x || 0, for x a number, NaN, null or undefined
OrZero(x) == IF x.t = "number" THEN x.v ELSE 0

RECURSIVE Sum(_)
Sum(seq) ==
    IF Len(seq) = 0 THEN 0
    ELSE IF Len(seq) = 1 THEN seq[1]
    ELSE LET h == Len(seq) \div 2
         IN  Sum(SubSeq(seq, 1, h)) + Sum(SubSeq(seq, h + 1, Len(seq)))

\* arr.map(f), arr.filter(f)
Map(arr, F(_)) == [i \in 1..Len(arr) |-> F(arr[i])]
Filter(arr, Test(_)) == SelectSeq(arr, Test)

\* arr.slice(0, n)
Slice(arr, n) == SubSeq(arr, 1, IF n < Len(arr) THEN n ELSE Len(arr))

\* mean(arr), as the fraction sum / length (0 for an empty array)
mean(arr) == IF Len(arr) = 0 THEN [num |-> 0, den |-> 1] ELSE [num |-> Sum(arr), den |-> Len(arr)]

\* (a / b * 100).toFixed(1) for integers 0 <= a, 0 <= b: one decimal, rounded
\* half up; NaN for 0 / 0 and Infinity for a / 0.  Exact for b < 16, where the
\* quotient is never midway between two tenths.
PercentFixed1(a, b) ==
    IF b = 0 THEN (IF a = 0 THEN "NaN" ELSE "Infinity")
    ELSE LET tenths == (2000 * a + b) \div (2 * b)
         IN  NumToString(tenths \div 10) \o "." \o NumToString(tenths % 10)

\* s.split(',')
RECURSIVE Split(_)
Split(s) ==
    LET commas == Occ(s, ",")
    IN  IF commas = {} THEN <<s>>
        ELSE <<SubSeq(s, 1, Min(commas) - 1)>> \o Split(SubSeq(s, Min(commas) + 1, Len(s)))

\* s.replace(p, '') for a string pattern p: the first occurrence only
ReplaceFirst(s, p) ==
    LET at == Occ(s, p)
    IN  IF at = {} THEN s
        ELSE SubSeq(s, 1, Min(at) - 1) \o SubSeq(s, Min(at) + Len(p), Len(s))

\* an esc that returns its argument as it is
esc_Identity(s) == s

\* esc: & first, then < and >
RECURSIVE esc(_)
esc(s) ==
    IF Len(s) = 0 THEN ""
    ELSE IF Len(s) = 1
    THEN (CASE s = "&" -> "&amp;"
            [] s = "<" -> "&lt;"
            [] s = ">" -> "&gt;"
            [] OTHER -> s)
    ELSE LET h == Len(s) \div 2
         IN  esc(SubSeq(s, 1, h)) \o esc(SubSeq(s, h + 1, Len(s)))

\* the elements of seq without repetition, in order of first appearance
\* (the insertion order of a Set, or of an object's keys)
Distinct(seq) ==
    LET IsFirst(i) == \A j \in 1..(i - 1) : seq[j] # seq[i]
        firsts == {i \in 1..Len(seq) : IsFirst(i)}
    IN  [r \in 1..Cardinality(firsts) |->
            seq[CHOOSE i \in firsts : Cardinality({j \in firsts : j < i}) = r - 1]]

\* arr.join(sep)
RECURSIVE Join(_, _)
Join(arr, sep) ==
    IF Len(arr) = 0 THEN ""
    ELSE IF Len(arr) = 1 THEN arr[1]
    ELSE arr[1] \o sep \o Join(Tail(arr), sep)

RECURSIVE Flatten(_)
Flatten(seqs) ==
    IF Len(seqs) = 0 THEN <<>>
    ELSE IF Len(seqs) = 1 THEN seqs[1]
    ELSE LET h == Len(seqs) \div 2
         IN  Flatten(SubSeq(seqs, 1, h)) \o Flatten(SubSeq(seqs, h + 1, Len(seqs)))

(***************************************************************************)
(* The Graph Store indices that app.js builds and hands to the engine.     *)
(* Node and edge positions are the 0-based array indices of the source;    *)
(* At reads an array at such an index.                                     *)
(***************************************************************************)
At(arr, i) == arr[i + 1]
InRange(arr, i) == i >= 0 /\ i < Len(arr)

\* nodes.forEach(n => nodeMap[n.id] = n): a later node with the same id wins
BuildNodeMap(nodes) ==
    [id \in {nodes[i].id : i \in 1..Len(nodes)} |->
        nodes[Max({i \in 1..Len(nodes) : nodes[i].id = id})]]

\* an index that lists each edge at its first endpoint only
BuildAdj_Directed(nodes, edges) ==
    [i \in 1..Len(nodes) |->
        Flatten([k \in 1..Len(edges) |->
            IF edges[k][1] = i - 1 THEN << <<edges[k][2], edges[k][3]>> >> ELSE <<>>])]

\* adj[e[0]].push([e[1], e[2]]); adj[e[1]].push([e[0], e[2]]), edge by edge
BuildAdj(nodes, edges) ==
    [i \in 1..Len(nodes) |->
        Flatten([k \in 1..Len(edges) |->
            (IF edges[k][1] = i - 1 THEN << <<edges[k][2], edges[k][3]>> >> ELSE <<>>)
            \o (IF edges[k][2] = i - 1 THEN << <<edges[k][1], edges[k][3]>> >> ELSE <<>>)])]

\* this.nodes.indexOf(node): the first position, or -1
indexOf(arr, x) ==
    LET at == {i \in 1..Len(arr) : arr[i] = x}
    IN  IF at = {} THEN 0 - 1 ELSE Min(at) - 1

(***************************************************************************)
(* QueryEngine: constructor and _precompute.                               *)
(***************************************************************************)
\* the trimmed non-empty tokens of a node's comma-joined facility string
FacilityTokens(node) ==
    IF "ft" \in DOMAIN node /\ node.ft # ""
    THEN LET IsToken(f) == f # ""
         IN  Filter(Map(Split(node.ft), trim), IsToken)
    ELSE <<>>

\* category aggregates without the guard for an empty bucket
CategoryStats_Unguarded(group) ==
    LET Gfa(d) == OrZero(Field(d, "gfa"))
        Energy(d) == OrZero(Field(d, "e"))
        Transit(d) == OrZero(Field(d, "ti"))
    IN  [ count |-> Len(group),
          avgGFA |-> mean(Map(group, Gfa)),
          avgEnergy |-> mean(Map(group, Energy)),
          avgTransit |-> mean(Map(group, Transit)),
          totalGFA |-> Sum(Map(group, Gfa)),
          totalEnergy |-> Sum(Map(group, Energy)) ]

\* this.catStats[cat]: { count: 0 } for an empty bucket, else the count, means
\* and totals of the bucket
CategoryStats(group) ==
    LET Gfa(d) == OrZero(Field(d, "gfa"))
        Energy(d) == OrZero(Field(d, "e"))
        Transit(d) == OrZero(Field(d, "ti"))
    IN  IF Len(group) = 0 THEN [count |-> 0]
        ELSE [ count |-> Len(group),
               avgGFA |-> mean(Map(group, Gfa)),
               avgEnergy |-> mean(Map(group, Energy)),
               avgTransit |-> mean(Map(group, Transit)),
               totalGFA |-> Sum(Map(group, Gfa)),
               totalEnergy |-> Sum(Map(group, Energy)) ]

\* QueryEngine._precompute
_precompute(nodes, edges) ==
    LET byCategory ==
            [cat \in Categories |->
                LET InCat(node) == node.category = cat IN Filter(nodes, InCat)]
        Gfa(d) == OrZero(Field(d, "gfa"))
        Energy(d) == OrZero(Field(d, "e"))
        Transit(d) == OrZero(Field(d, "ti"))
        edgeTypes == {edges[k][3] : k \in 1..Len(edges)}
    IN  [ byCategory |-> byCategory,
          stats |->
            [ count |-> Len(nodes),
              totalGFA |-> Sum(Map(nodes, Gfa)),
              totalEnergy |-> Sum(Map(nodes, Energy)),
              avgTransit |-> mean(Map(nodes, Transit)),
              avgGFA |-> mean(Map(nodes, Gfa)),
              avgEnergy |-> mean(Map(nodes, Energy)),
              edgeCount |-> Len(edges) ],
          catStats |-> [cat \in Categories |-> CategoryStats(byCategory[cat])],
          edgeTypeCounts |->
            [t \in edgeTypes |-> Cardinality({k \in 1..Len(edges) : edges[k][3] = t})],
          allFacilityTypes |-> Distinct(Flatten(Map(nodes, FacilityTokens))) ]

\* new QueryEngine(nodes, edges, adj, nodeMap)
QueryEngine(nodes, edges, adj, nodeMap) ==
    LET pre == _precompute(nodes, edges)
    IN  [ nodes |-> nodes, edges |-> edges, adj |-> adj, nodeMap |-> nodeMap,
          byCategory |-> pre.byCategory, stats |-> pre.stats, catStats |-> pre.catStats,
          edgeTypeCounts |-> pre.edgeTypeCounts, allFacilityTypes |-> pre.allFacilityTypes ]

(***************************************************************************)
(* Results.                                                                *)
(***************************************************************************)
EDGE_TYPES ==
    {"sn_Bar", "sn_Cafe", "sn_ChildCare", "sn_Facility", "sn_Restaurant",
     "sn_SocialService", "sn_UseSite", "sim"}

EDGE_LABELS ==
    [t \in EDGE_TYPES |->
        CASE t = "sn_Bar" -> "Shares Nearest Bar"
          [] t = "sn_Cafe" -> "Shares Nearest Cafe"
          [] t = "sn_ChildCare" -> "Shares Nearest ChildCare"
          [] t = "sn_Facility" -> "Shares Nearest Facility"
          [] t = "sn_Restaurant" -> "Shares Nearest Restaurant"
          [] t = "sn_SocialService" -> "Shares Nearest Social Service"
          [] t = "sn_UseSite" -> "Shares Nearest Community Site"
          [] t = "sim" -> "Similar Lifestyle"]

\* CAT_LABELS[c] || c
CatLabelOr(c) == IF c \in Categories THEN CAT_LABELS[c] ELSE c

\* EDGE_LABELS[t] || t
EdgeLabelOr(t) == IF t \in EDGE_TYPES THEN EDGE_LABELS[t] ELSE t

\* An exception that escapes the call: reading a property of undefined.
TypeErrorThrown == [thrown |-> "TypeError"]

\* an _error that raises instead of returning a result
_error_Raises(message) == TypeErrorThrown

\* QueryEngine._error
_error(message) == [title |-> "Error", type |-> "error", html |-> [kind |-> "error", message |-> message]]

\* QueryEngine.getExampleQuestions
getExampleQuestions ==
    <<"Show me an overview of the dataset",
      "Top 10 parcels by energy consumption",
      "Tell me about kml_10042",
      "How are parcels categorized?",
      "Which parcels have a Cafe?",
      "Compare Transit-Oriented Dense vs Peripheral",
      "Average transit index by category",
      "Neighbors of kml_10042",
      "How many parcels are High Density?",
      "Bottom 5 parcels by diversity index">>

\* QueryEngine._fallback
_fallback(q) ==
    [ title |-> "Query Not Understood", type |-> "error",
      html |-> [kind |-> "fallback", query |-> esc(q), examples |-> Map(getExampleQuestions, esc)] ]

\* the id as the tables display it: d.id.replace('kml_', '')
NodeId_Displayed(d) == ReplaceFirst(d.id, "kml_")

NodeId(d) == d.id

\* the connections of a node grouped by edge type, in order of first appearance:
\* each group holds the neighbor indices of its type
ConnByType(connections) ==
    LET TypeOf(c) == c[2]
        types == Distinct(Map(connections, TypeOf))
    IN  [g \in 1..Len(types) |->
            [ eType |-> types[g],
              neighbors |->
                LET OfType(c) == c[2] = types[g]
                    IndexOf(c) == c[1]
                IN  Map(Filter(connections, OfType), IndexOf) ]]

\* a lookup that reads the adjacency list one position further
Connections_NextPosition(this, nodeIdx) ==
    IF InRange(this.adj, nodeIdx + 1) THEN At(this.adj, nodeIdx + 1) ELSE <<>>

\* this.adj[nodeIdx] || []
Connections(this, nodeIdx) ==
    IF InRange(this.adj, nodeIdx) THEN At(this.adj, nodeIdx) ELSE <<>>

\* QueryEngine._parcelLookup
_parcelLookup(this, id) ==
    IF id \notin DOMAIN this.nodeMap
    THEN _error("Parcel <strong>" \o esc(id) \o "</strong> was not found in the dataset.")
    ELSE
      LET node == this.nodeMap[id]
          nodeIdx == indexOf(this.nodes, node)
          connections == Connections(this, nodeIdx)
          groups == ConnByType(connections)
          \* node.lat.toFixed, node.lng.toFixed
          noPosition == "lat" \notin DOMAIN node \/ "lng" \notin DOMAIN node
          \* n.id of a neighbor that is no node, among the 8 shown of a group
          danglingShown ==
              \E g \in 1..Len(groups) : \E k \in 1..Len(Slice(groups[g].neighbors, 8)) :
                  ~InRange(this.nodes, groups[g].neighbors[k])
          IdAt(nIdx) == At(this.nodes, nIdx).id
      IN  IF noPosition \/ danglingShown THEN TypeErrorThrown
          ELSE
            [ title |-> "Parcel " \o id,
              type |-> "parcel-detail",
              html |->
                [ kind |-> "parcel", id |-> esc(id), catLabel |-> CatLabelOr(node.category),
                  lat |-> node.lat, lng |-> node.lng,
                  facilities |-> FacilityTokens(node),
                  connections |-> Len(connections),
                  groups |->
                    [g \in 1..Len(groups) |->
                        [ label |-> EdgeLabelOr(groups[g].eType),
                          count |-> Len(groups[g].neighbors),
                          shown |-> Map(Slice(groups[g].neighbors, 8), IdAt),
                          more |-> IF Len(groups[g].neighbors) > 8
                                   THEN Len(groups[g].neighbors) - 8 ELSE 0 ]] ],
              chartConfig |->
                [type |-> "radar", series |-> <<id, CatLabelOr(node.category) \o " Avg">>],
              mapHighlights |-> <<id>> ]

\* the first match of /\b(\d+)\b/: a maximal run of digits with no word
\* character on either side; <<>> when there is none
FirstInteger(t) ==
    LET starts ==
            {i \in 1..Len(t) :
                /\ Ch(t, i) \in Digits
                /\ Boundary(t, i)
                /\ \E j \in i..Len(t) :
                      /\ \A k \in i..j : Ch(t, k) \in Digits
                      /\ Boundary(t, j + 1)}
    IN  IF starts = {} THEN <<>>
        ELSE LET i == Min(starts)
                 j == Min({k \in i..Len(t) : Boundary(t, k + 1)})
             IN  <<SubSeq(t, i, j)>>

\* a count that is neither capped nor reset
RankingCount_Unclamped(lower) ==
    LET countMatch == FirstInteger(lower)
    IN  IF countMatch # <<>> THEN parseInt(countMatch[1]) ELSE 10

\* QueryEngine._ranking, the count: the first standalone integer of the text,
\* 10 by default, at most 50, and 10 again when below 1
RankingCount(lower) ==
    LET countMatch == FirstInteger(lower)
        parsed == IF countMatch # <<>> THEN parseInt(countMatch[1]) ELSE 10
        capped == IF parsed > 50 THEN 50 ELSE parsed
    IN  IF capped < 1 THEN 10 ELSE capped

(***************************************************************************)
(* Arrays as objects.  sort puts the elements of the array it is called on *)
(* in order, so what a call does to the engine depends on which array that *)
(* is: an array object is the elements with the owner, the field of the    *)
(* engine the array is (<<"nodes">>, <<"byCategory", cat>>, ...), or <<>>  *)
(* for an array made during the call.                                      *)
(***************************************************************************)
\* this.nodes, this.allFacilityTypes, this.byCategory[cat]: the engine's own array
OwnArray(this, path) ==
    [ owner |-> path,
      items |-> IF Len(path) = 1 THEN this[path[1]] ELSE this[path[1]][path[2]] ]

\* the value of a.filter(...), a.map(...), a.slice(...), Object.entries(o): a
\* new array
NewArray(items) == [owner |-> <<>>, items |-> items]

\* a spread that hands on the array itself
spread_SameArray(a) == a

\* [...a]: a new array with the elements of a (an array or a Set)
spread(a) == NewArray(a.items)

\* a.sort(...): a itself, its elements now in the order sorted
sort(a, sorted) == [a EXCEPT !.items = sorted]

\* the array sorted of _ranking when the metric is resolved:
\* [...this.nodes].filter(...).sort(...)
_rankingSorted(this, lower) ==
    LET isBottom ==
            \E w \in {"bottom", "lowest", "smallest", "least", "worst"} : includes(lower, w)
        metricDef == METRICS[_matchMetric(lower)]
        Present(d) == IsPresent(Field(d, metricDef.key))
        Value(d) == OrZero(Field(d, metricDef.key))
        eligible == NewArray(Filter(spread(OwnArray(this, <<"nodes">>)).items, Present))
    IN  sort(eligible, IF isBottom THEN SortAscending(eligible.items, Map(eligible.items, Value))
                       ELSE SortDescending(eligible.items, Map(eligible.items, Value)))

\* QueryEngine._ranking
_ranking(this, lower) ==
    LET isBottom ==
            \E w \in {"bottom", "lowest", "smallest", "least", "worst"} : includes(lower, w)
        dirLabel == IF isBottom THEN "Bottom" ELSE "Top"
        count == RankingCount(lower)
        metric == _matchMetric(lower)
    IN  IF metric = null
        THEN _error("Could not determine which metric to rank. Try: energy, gfa, transit, diversity, buildings, units, levels, bus distance, mrt distance.")
        ELSE
          LET metricDef == METRICS[metric]
              Value(d) == OrZero(Field(d, metricDef.key))
              sorted == _rankingSorted(this, lower).items
              topN == Slice(sorted, count)
              ShortId(d) == ReplaceFirst(d.id, "kml_")
          IN  [ title |-> dirLabel \o " " \o NumToString(count) \o " Parcels by " \o metricDef.label,
                type |-> "ranking",
                html |->
                  [ kind |-> "ranking", dirLabel |-> dirLabel, count |-> count,
                    label |-> metricDef.label, unit |-> metricDef.unit,
                    rows |->
                      [i \in 1..Len(topN) |->
                          [ rank |-> i, id |-> topN[i].id,
                            category |-> CatLabelOr(topN[i].category),
                            value |-> Field(topN[i], metricDef.key) ]] ],
                chartConfig |->
                  [type |-> "bar", labels |-> Map(topN, ShortId), data |-> Map(topN, Value)],
                mapHighlights |-> Map(topN, NodeId) ]

\* a matching set that compares the tokens without trimming them
WithFacility_Untrimmed(this, ft) ==
    LET Has(d) ==
            LET tokens == IF "ft" \in DOMAIN d /\ d.ft # "" THEN Map(Split(d.ft), toLowerCase)
                          ELSE <<>>
            IN  \E i \in 1..Len(tokens) : tokens[i] = toLowerCase(ft)
    IN  Filter(this.nodes, Has)

\* the nodes whose comma-joined facility string has a trimmed token equal to ft,
\* ignoring case
WithFacility(this, ft) ==
    LET Has(d) ==
            LET tokens == IF "ft" \in DOMAIN d /\ d.ft # "" THEN Map(Map(Split(d.ft), trim), toLowerCase)
                          ELSE <<>>
            IN  \E i \in 1..Len(tokens) : tokens[i] = toLowerCase(ft)
    IN  Filter(this.nodes, Has)

\* count-style answers that look for a facility type before a category
CountAnswer_FacilityFirst(this, lower) ==
    LET cat == _matchCategory(lower)
        ft == _matchFacilityType(this.allFacilityTypes, lower)
    IN  IF ft # null
        THEN LET matching == WithFacility(this, ft)
             IN  [ title |-> "Parcels with " \o ft,
                   type |-> "statistic",
                   html |->
                     [ kind |-> "facility-count", count |-> Len(matching), facility |-> ft,
                       percent |-> PercentFixed1(Len(matching), this.stats.count) ] ]
        ELSE IF cat # null
        THEN LET group == this.byCategory[cat]
             IN  [ title |-> "Count: " \o CAT_LABELS[cat],
                   type |-> "statistic",
                   html |->
                     [ kind |-> "category-count", count |-> Len(group),
                       label |-> CAT_LABELS[cat],
                       percent |-> PercentFixed1(Len(group), this.stats.count),
                       total |-> this.stats.count ],
                   mapHighlights |-> Map(group, NodeId) ]
        ELSE [ title |-> "Parcel Count",
               type |-> "statistic",
               html |->
                 [ kind |-> "parcel-count", count |-> this.stats.count,
                   edges |-> this.stats.edgeCount ] ]

\* const bins = 12
bins == 12

\* a bin index without the cap `if (b >= bins) b = bins - 1`
HistogramBin_Uncapped(v, minVal, maxVal) ==
    IF maxVal = minVal THEN v - minVal ELSE ((v - minVal) * bins) \div (maxVal - minVal)

\* Math.floor((v - minVal) / binWidth) with binWidth = (maxVal - minVal) / bins || 1,
\* capped at bins - 1.  For integers v, minVal, maxVal below 40 the quotient of
\* the two doubles has the floor of the exact quotient computed here.
HistogramBin(v, minVal, maxVal) ==
    LET b == IF maxVal = minVal THEN v - minVal
             ELSE ((v - minVal) * bins) \div (maxVal - minVal)
    IN  IF b >= bins THEN bins - 1 ELSE b

\* new Array(bins).fill(0), then histogram[b]++ for each value: an increment at
\* an index outside 0..bins-1 leaves the bins as they are
Histogram(values) ==
    LET Values == {values[i] : i \in 1..Len(values)}
        minVal == Min(Values)
        maxVal == Max(Values)
    IN  [b \in 1..bins |->
            Cardinality({i \in 1..Len(values) : HistogramBin(values[i], minVal, maxVal) = b - 1})]

\* QueryEngine._statistics, the count-style answers given without a metric:
\* the category count, else the facility-type count, else the dataset size
CountAnswer(this, lower) ==
    LET cat == _matchCategory(lower)
        ft == _matchFacilityType(this.allFacilityTypes, lower)
    IN  IF cat # null
        THEN LET group == this.byCategory[cat]
             IN  [ title |-> "Count: " \o CAT_LABELS[cat],
                   type |-> "statistic",
                   html |->
                     [ kind |-> "category-count", count |-> Len(group),
                       label |-> CAT_LABELS[cat],
                       percent |-> PercentFixed1(Len(group), this.stats.count),
                       total |-> this.stats.count ],
                   mapHighlights |-> Map(group, NodeId) ]
        ELSE IF ft # null
        THEN LET matching == WithFacility(this, ft)
             IN  [ title |-> "Parcels with " \o ft,
                   type |-> "statistic",
                   html |->
                     [ kind |-> "facility-count", count |-> Len(matching), facility |-> ft,
                       percent |-> PercentFixed1(Len(matching), this.stats.count) ] ]
        ELSE [ title |-> "Parcel Count",
               type |-> "statistic",
               html |->
                 [ kind |-> "parcel-count", count |-> this.stats.count,
                   edges |-> this.stats.edgeCount ] ]

\* the arrays median(arr) sorts, arr an array made by the caller: none for an
\* empty arr (median returns before it makes the copy), else the one copy
\* [...arr].sort(...)
medianSorted(arr) ==
    LET copy == spread(NewArray(arr))
    IN  IF Len(arr) = 0 THEN <<>>
        ELSE <<sort(copy, SortAscending(copy.items, copy.items))>>

\* median(arr), as a fraction: the middle element of the sorted copy, or half
\* the sum of the two middle elements (0 for an empty array)
median(arr) ==
    LET sorted == medianSorted(arr)[1].items
        mid == Len(arr) \div 2
    IN  IF Len(arr) = 0 THEN [num |-> 0, den |-> 1]
        ELSE IF Len(arr) % 2 = 1 THEN [num |-> sorted[mid + 1], den |-> 1]
        ELSE [num |-> sorted[mid] + sorted[mid + 1], den |-> 2]

\* statistics values that leave out the nodes without a value, as the ranking does
StatisticsValues_PresentOnly(this, key) ==
    LET Present(d) == IsPresent(Field(d, key))
        Value(d) == OrZero(Field(d, key))
    IN  Map(Filter(this.nodes, Present), Value)

\* this.nodes.map(d => d[metricDef.key] || 0).filter(v => !isNaN(v)): a missing,
\* null or NaN value is read as 0, so the filter passes every number
StatisticsValues(this, key) ==
    LET Value(d) == OrZero(Field(d, key))
    IN  Map(this.nodes, Value)

\* QueryEngine._statistics
_statistics(this, lower) ==
    LET metric == _matchMetric(lower)
    IN  IF metric = null /\ (includes(lower, "how many") \/ includes(lower, "count"))
        THEN CountAnswer(this, lower)
        ELSE IF metric = null
        THEN _error("Could not determine which metric to compute. Try: energy, gfa, transit, diversity, buildings, units.")
        ELSE
          LET metricDef == METRICS[metric]
              Value(d) == OrZero(Field(d, metricDef.key))
              values == StatisticsValues(this, metricDef.key)
              Values == {values[i] : i \in 1..Len(values)}
              nonEmpty == {c \in 1..Len(CAT_KEYS) : Len(this.byCategory[CAT_KEYS[c]]) > 0}
          IN  [ title |-> "Statistics: " \o metricDef.label,
                type |-> "statistics",
                html |->
                  [ kind |-> "metric-statistics", label |-> metricDef.label, unit |-> metricDef.unit,
                    parcels |-> this.stats.count,
                    count |-> Len(values), total |-> Sum(values), mean |-> mean(values),
                    median |-> median(values),
                    \* Math.min(...values), Math.max(...values)
                    min |-> IF Len(values) = 0 THEN "Infinity" ELSE Min(Values),
                    max |-> IF Len(values) = 0 THEN "-Infinity" ELSE Max(Values),
                    byCategory |->
                      [c \in nonEmpty |->
                          [ count |-> Len(this.byCategory[CAT_KEYS[c]]),
                            total |-> Sum(Map(this.byCategory[CAT_KEYS[c]], Value)) ]] ],
                chartConfig |->
                  [ type |-> "bar", title |-> "Distribution of " \o metricDef.label,
                    data |-> Histogram(values) ] ]

\* the array sorted for top5 of _categoryInfo: [...group].sort(...), group the
\* array this.byCategory[cat]
_categoryInfoSorted(this, cat) ==
    LET Gfa(d) == OrZero(Field(d, "gfa"))
        copy == spread(OwnArray(this, <<"byCategory", cat>>))
    IN  sort(copy, SortDescending(copy.items, Map(copy.items, Gfa)))

\* QueryEngine._categoryInfo
_categoryInfo(this, cat) ==
    LET group == this.byCategory[cat]
        label == CAT_LABELS[cat]
        top5 == Slice(_categoryInfoSorted(this, cat).items, 5)
    IN  IF Len(group) = 0
        THEN _error("No parcels found in category <strong>" \o label \o "</strong>.")
        ELSE [ title |-> "Category: " \o label,
               type |-> "category",
               html |->
                 [ kind |-> "category", label |-> label, count |-> Len(group),
                   percent |-> PercentFixed1(Len(group), this.stats.count),
                   top5 |-> Map(top5, NodeId) ],
               chartConfig |-> [type |-> "bar", title |-> "Category Comparison: Transit & Diversity"],
               mapHighlights |-> Map(group, NodeId) ]

\* the categories of a node list with the number of nodes of each, in order of
\* first appearance (the keys of the object the handler counts into)
CountByCategory(list) ==
    LET CatOf(d) == d.category
        cats == Distinct(Map(list, CatOf))
    IN  [c \in 1..Len(cats) |->
            [ category |-> cats[c],
              count |-> Cardinality({i \in 1..Len(list) : list[i].category = cats[c]}) ]]

\* printable ASCII characters (all but the double quote, the backslash and the
\* backtick) in the order of their UTF-16 code units
CodeUnits ==
    " !#$%&'()*+,-./0123456789:;<=>?@ABCDEFGHIJKLMNOPQRSTUVWXYZ[]^_abcdefghijklmnopqrstuvwxyz{|}~"

\* a < b in the order of Array.prototype.sort without a comparator: by code unit,
\* a proper prefix first
RECURSIVE StringLess(_, _)
StringLess(a, b) ==
    IF Len(b) = 0 THEN FALSE
    ELSE IF Len(a) = 0 THEN TRUE
    ELSE IF Ch(a, 1) = Ch(b, 1) THEN StringLess(SubSeq(a, 2, Len(a)), SubSeq(b, 2, Len(b)))
    ELSE IndexOfChar(CodeUnits, Ch(a, 1)) < IndexOfChar(CodeUnits, Ch(b, 1))

\* [...arr].sort() of strings
SortStrings(arr) ==
    LET n == Len(arr)
        Rank(i) == Cardinality({j \in 1..n : StringLess(arr[j], arr[i])
                                            \/ (arr[j] = arr[i] /\ j < i)}) + 1
    IN  [r \in 1..n |-> arr[CHOOSE i \in 1..n : Rank(i) = r]]

\* [...this.allFacilityTypes].sort() of _facilityQuery and _overview
SortedFacilityTypes(this) ==
    LET copy == spread(OwnArray(this, <<"allFacilityTypes">>))
    IN  sort(copy, SortStrings(copy.items))

\* the array sorted for top10 of _facilityQuery: [...matching].sort(...),
\* matching the array this.nodes.filter(...)
_facilityQuerySorted(this, ft) ==
    LET Gfa(d) == OrZero(Field(d, "gfa"))
        copy == spread(NewArray(WithFacility(this, ft)))
    IN  sort(copy, SortDescending(copy.items, Map(copy.items, Gfa)))

\* QueryEngine._facilityQuery
_facilityQuery(this, lower) ==
    LET ft == _matchFacilityType(this.allFacilityTypes, lower)
        matching == WithFacility(this, ft)
        catBreakdown == CountByCategory(matching)
        Count(entry) == entry.count
        top10 == Slice(_facilityQuerySorted(this, ft).items, 10)
    IN  IF ft = null
        THEN _error("Could not determine which facility type. Available: "
                    \o Join(SortedFacilityTypes(this).items, ", "))
        ELSE IF Len(matching) = 0
        THEN [ title |-> "Parcels with " \o ft,
               type |-> "facility",
               html |-> [kind |-> "facility-none", facility |-> esc(ft)] ]
        ELSE [ title |-> "Parcels with " \o ft,
               type |-> "facility",
               html |->
                 [ kind |-> "facility", facility |-> esc(ft), count |-> Len(matching),
                   percent |-> PercentFixed1(Len(matching), this.stats.count),
                   catRows |->
                     LET rows == SortDescending(catBreakdown, Map(catBreakdown, Count))
                     IN  [r \in 1..Len(rows) |->
                             [ category |-> rows[r].category,
                               \* catDot(cat) + CAT_LABELS[cat]
                               label |-> IF rows[r].category \in Categories
                                         THEN CAT_LABELS[rows[r].category] ELSE "undefined",
                               count |-> rows[r].count,
                               share |-> PercentFixed1(rows[r].count, Len(matching)) ]],
                   top10 |-> Map(top10, NodeId) ],
               chartConfig |-> [type |-> "doughnut", data |-> Map(catBreakdown, Count)],
               mapHighlights |-> Map(matching, NodeId) ]

\* neighbor ids that stop at the 15 displayed of each group
AllNeighborIds_ShownOnly(this, groups) ==
    LET IdAt(nIdx) == At(this.nodes, nIdx).id
        Shown(g) == Slice(g.neighbors, 15)
    IN  Map(Flatten(Map(groups, Shown)), IdAt)

\* allNeighborIds: neighbors.forEach(n => allNeighborIds.push(n.id)), group by group
AllNeighborIds(this, groups) ==
    LET IdAt(nIdx) == At(this.nodes, nIdx).id
        Neighbors(g) == g.neighbors
    IN  Map(Flatten(Map(groups, Neighbors)), IdAt)

\* QueryEngine._relationships
_relationships(this, id) ==
    IF id \notin DOMAIN this.nodeMap
    THEN _error("Parcel <strong>" \o esc(id) \o "</strong> was not found.")
    ELSE
      LET node == this.nodeMap[id]
          nodeIdx == indexOf(this.nodes, node)
          connections == Connections(this, nodeIdx)
          groups == ConnByType(connections)
          \* n.id and this.nodes[nIdx].category of a neighbor that is no node
          dangling == \E c \in 1..Len(connections) : ~InRange(this.nodes, connections[c][1])
          IdAt(nIdx) == At(this.nodes, nIdx).id
          NodeAt(c) == At(this.nodes, c[1])
      IN  IF Len(connections) = 0
          THEN [ title |-> "Connections: " \o id,
                 type |-> "relationship",
                 html |-> [kind |-> "no-connections", id |-> esc(id)] ]
          ELSE IF dangling THEN TypeErrorThrown
          ELSE [ title |-> "Connections of " \o id,
                 type |-> "relationship",
                 html |->
                   [ kind |-> "relationship", id |-> esc(id),
                     connections |-> Len(connections), types |-> Len(groups),
                     groups |->
                       [g \in 1..Len(groups) |->
                           [ label |-> EdgeLabelOr(groups[g].eType),
                             count |-> Len(groups[g].neighbors),
                             shown |-> Map(Slice(groups[g].neighbors, 15), IdAt),
                             more |-> IF Len(groups[g].neighbors) > 15
                                      THEN Len(groups[g].neighbors) - 15 ELSE 0 ]] ],
                 chartConfig |->
                   [type |-> "doughnut", data |-> CountByCategory(Map(connections, NodeAt))],
                 mapHighlights |-> <<id>> \o AllNeighborIds(this, groups) ]

\* a comparison whose error names side B whenever B does not resolve
_comparison_NamesSideB(this, nameA, nameB) ==
    LET catA == _matchCategory(nameA)
        catB == _matchCategory(nameB)
    IN  IF catA = null \/ catB = null
        THEN LET missing == IF catB = null THEN nameB ELSE nameA
             IN  _error("Could not match \"<strong>" \o esc(missing) \o "</strong>\" to a category. Available: "
                            \o Join([i \in 1..Len(CAT_KEYS) |-> CAT_LABELS[CAT_KEYS[i]]], ", "))
        ELSE [ title |-> CAT_LABELS[catA] \o " vs " \o CAT_LABELS[catB],
               type |-> "comparison",
               html |->
                 [ kind |-> "comparison", labelA |-> CAT_LABELS[catA], labelB |-> CAT_LABELS[catB],
                   countA |-> this.catStats[catA].count, countB |-> this.catStats[catB].count ],
               chartConfig |-> [type |-> "radar", series |-> <<CAT_LABELS[catA], CAT_LABELS[catB]>>],
               mapHighlights |->
                 Map(this.byCategory[catA], NodeId) \o Map(this.byCategory[catB], NodeId) ]

\* a comparison that highlights B's bucket before A's
_comparison_HighlightsSwapped(this, nameA, nameB) ==
    LET catA == _matchCategory(nameA)
        catB == _matchCategory(nameB)
    IN  IF catA = null \/ catB = null
        THEN LET missing == IF catA = null THEN nameA ELSE nameB
             IN  _error("Could not match \"<strong>" \o esc(missing) \o "</strong>\" to a category. Available: "
                            \o Join([i \in 1..Len(CAT_KEYS) |-> CAT_LABELS[CAT_KEYS[i]]], ", "))
        ELSE [ title |-> CAT_LABELS[catA] \o " vs " \o CAT_LABELS[catB],
               type |-> "comparison",
               html |->
                 [ kind |-> "comparison", labelA |-> CAT_LABELS[catA], labelB |-> CAT_LABELS[catB],
                   countA |-> this.catStats[catA].count, countB |-> this.catStats[catB].count ],
               chartConfig |-> [type |-> "radar", series |-> <<CAT_LABELS[catA], CAT_LABELS[catB]>>],
               mapHighlights |->
                 Map(this.byCategory[catB], NodeId) \o Map(this.byCategory[catA], NodeId) ]

\* QueryEngine._comparison
_comparison(this, nameA, nameB) ==
    LET catA == _matchCategory(nameA)
        catB == _matchCategory(nameB)
    IN  IF catA = null \/ catB = null
        THEN LET missing == IF catA = null THEN nameA ELSE nameB
             IN  _error("Could not match \"<strong>" \o esc(missing) \o "</strong>\" to a category. Available: "
                            \o Join([i \in 1..Len(CAT_KEYS) |-> CAT_LABELS[CAT_KEYS[i]]], ", "))
        ELSE [ title |-> CAT_LABELS[catA] \o " vs " \o CAT_LABELS[catB],
               type |-> "comparison",
               html |->
                 [ kind |-> "comparison", labelA |-> CAT_LABELS[catA], labelB |-> CAT_LABELS[catB],
                   countA |-> this.catStats[catA].count, countB |-> this.catStats[catB].count ],
               chartConfig |-> [type |-> "radar", series |-> <<CAT_LABELS[catA], CAT_LABELS[catB]>>],
               mapHighlights |->
                 Map(this.byCategory[catA], NodeId) \o Map(this.byCategory[catB], NodeId) ]

\* QueryEngine._methodology
_methodology(this) ==
    [ title |-> "Classification Methodology",
      type |-> "methodology",
      html |->
        [ kind |-> "methodology",
          counts |-> [c \in Categories |-> Len(this.byCategory[c])],
          edgeCounts |->
            [t \in EDGE_TYPES |->
                IF t \in DOMAIN this.edgeTypeCounts THEN this.edgeTypeCounts[t] ELSE 0] ],
      chartConfig |-> [type |-> "pie", title |-> "Category Distribution"] ]

\* QueryEngine._overview
_overview(this) ==
    LET cats == {c \in 1..Len(CAT_KEYS) : Len(this.byCategory[CAT_KEYS[c]]) > 0}
    IN  [ title |-> "Dataset Overview",
          type |-> "overview",
          html |->
            [ kind |-> "overview", parcels |-> this.stats.count, edges |-> this.stats.edgeCount,
              totalGFA |-> this.stats.totalGFA, totalEnergy |-> this.stats.totalEnergy,
              catRows |->
                [c \in cats |->
                    [ count |-> this.catStats[CAT_KEYS[c]].count,
                      share |-> PercentFixed1(this.catStats[CAT_KEYS[c]].count, this.stats.count) ]],
              edgeTypes |-> this.edgeTypeCounts,
              facilityTypes |-> Len(this.allFacilityTypes) ],
          chartConfig |-> [type |-> "pie", title |-> "Parcel Distribution by Category"] ]

\* QueryEngine._facilityTypes
_facilityTypes(this) ==
    LET tokens == Flatten(Map(this.nodes, FacilityTokens))
        types == Distinct(tokens)
        CountOf(ft) == Cardinality({i \in 1..Len(tokens) : tokens[i] = ft})
        sorted == SortDescending(types, Map(types, CountOf))
    IN  [ title |-> "Facility Types",
          type |-> "facility-types",
          html |->
            [ kind |-> "facility-types", types |-> Len(sorted),
              rows |->
                [r \in 1..Len(sorted) |->
                    [ facility |-> sorted[r], count |-> CountOf(sorted[r]),
                      coverage |-> PercentFixed1(CountOf(sorted[r]), this.stats.count) ]] ],
          chartConfig |-> [type |-> "bar", title |-> "Facility Type Coverage"] ]

\* QueryEngine._edgeTypes
_edgeTypes(this) ==
    [ title |-> "Edge / Relationship Types",
      type |-> "edge-types",
      html |->
        [ kind |-> "edge-types", edges |-> this.stats.edgeCount,
          types |-> Cardinality(DOMAIN this.edgeTypeCounts),
          counts |-> this.edgeTypeCounts ],
      chartConfig |-> [type |-> "bar", title |-> "Edge Type Distribution"] ]

(***************************************************************************)
(* The dispatcher.                                                         *)
(***************************************************************************)
\* q.match(/kml_\d+/i): the leftmost "kml_" (in any letter case) followed by a
\* digit, with all the digits that follow; <<>> when there is none
FirstParcelId(q) ==
    LET starts ==
            {i \in 1..(Len(q) - 4) :
                toLowerCase(SubSeq(q, i, i + 3)) = "kml_" /\ Ch(q, i + 4) \in Digits}
    IN  IF starts = {} THEN <<>>
        ELSE LET i == Min(starts)
                 j == Max({k \in (i + 4)..Len(q) : \A d \in (i + 4)..k : Ch(q, d) \in Digits})
             IN  <<SubSeq(q, i, j)>>

\* lower.match(/compare\s+(.+?)\s+(?:and|vs\.?|versus|with)\s+(.+)/): the two
\* groups of the first match in the order a backtracking matcher tries them
\* (leftmost "compare", longest first \s+, shortest first group, longest last
\* \s+ and last group); <<>> when nothing matches
CompareMatch(t) ==
    LET n == Len(t)
        AllSpace(a, b) == \A k \in a..b : Ch(t, k) \in SpaceChars
        AllDot(a, b) == \A k \in a..b : Ch(t, k) # "\n"
        Connectors == {"and", "vs.", "vs", "versus", "with"}
        \* where the last group can start when the connector ends before x
        Group2Starts(x) == {r \in (x + 1)..n : AllSpace(x, r - 1) /\ Ch(t, r) # "\n"}
        \* the position after the connector, when the first group ends at e
        \* <<q, x>>: a connector starts at q and ends before x, and the rest of
        \* the pattern matches from x on
        connectorAt ==
            {qx \in UNION {{<<q, q + Len(c)>> : q \in Occ(t, c)} : c \in Connectors} :
                Group2Starts(qx[2]) # {}}
        AfterConnector(e) ==
            {qx[2] : qx \in {c \in connectorAt : c[1] >= e + 2 /\ AllSpace(e + 1, c[1] - 1)}}
        Group1Ends(p) == {e \in p..n : AllDot(p, e) /\ AfterConnector(e) # {}}
        Group1Starts(i) == {p \in (i + 8)..n : AllSpace(i + 7, p - 1) /\ Group1Ends(p) # {}}
        starts == {i \in Occ(t, "compare") : Group1Starts(i) # {}}
    IN  IF starts = {} THEN <<>>
        ELSE LET i == Min(starts)
                 p == Max(Group1Starts(i))
                 e == Min(Group1Ends(p))
                 x == Min(AfterConnector(e))
                 r == Max(Group2Starts(x))
                 eol == Max({k \in r..n : AllDot(r, k)})
             IN  <<SubSeq(t, p, e), SubSeq(t, r, eol)>>

IsMethodology(lower) ==
    \/ DotStar(lower, "how are", {"categor"})
    \/ includes(lower, "node type")
    \/ includes(lower, "classification")
    \/ includes(lower, "category rule")
    \/ DotStar(lower, "how", {"classif"})

IsRelationship(lower) ==
    \E w \in {"connected to", "neighbor of", "neighbors of", "connection of",
              "connections of", "adjacent to", "linked to"} : includes(lower, w)

IsRanking(lower) ==
    \E w \in {"top", "highest", "largest", "biggest", "most", "bottom", "lowest",
              "smallest", "least", "best", "worst"} : HasWord(lower, w)

FacilityNouns ==
    {"bar", "cafe", "garden", "library", "sport", "museum", "hawker", "childcare",
     "restaurant", "social"}

\* a facility rule that a facility keyword anywhere in the text satisfies
IsFacilityQuery_AnyKeyword(lower) ==
    \/ DotStar(lower, "which", {"have", "with", "contain"})
    \/ DotStar(lower, "parcels", {"have", "with"})
    \/ \E f \in FacilityNouns : includes(lower, f)

IsFacilityQuery(lower) ==
    \/ DotStar(lower, "which", {"have", "with", "contain"})
    \/ DotStar(lower, "parcels", {"have", "with"})
    \/ \E f \in FacilityNouns : includes(lower, "has " \o f) \/ includes(lower, "has a " \o f)

IsStatistics(lower) ==
    \E w \in {"average", "mean", "total", "sum", "how many", "count", "median",
              "standard deviation", "std dev"} : HasWord(lower, w)

IsOverview(lower) ==
    \E w \in {"overview", "summary", "general", "dataset", "about the data",
              "about the graph", "about the knowledge"} : includes(lower, w)

IsFacilityTypes(lower) ==
    \E w \in {"facility", "facilities", "amenities", "what types", "what kinds"} :
        includes(lower, w)

IsEdgeTypes(lower) ==
    \E w \in {"edge type", "relationship type", "connection type", "link type"} :
        includes(lower, w)

IsTellMeAbout(lower) ==
    \E w \in {"tell me about", "detail of", "detail for", "detail on",
              "details of", "details for", "details on"} : includes(lower, w)

\* a query that tries the parcel-id rule after the ranking rule
query_IdRuleAfterRanking(this, txt) ==
    LET q == trim(txt)
        lower == toLowerCase(q)
        parcelMatch == FirstParcelId(q)
        compareMatch == CompareMatch(lower)
        matchedCat == _matchCategory(lower)
    IN  IF q = "" THEN _error("Please enter a query.")
        ELSE IF IsMethodology(lower) THEN _methodology(this)
        ELSE IF compareMatch # <<>>
        THEN _comparison(this, trim(compareMatch[1]), trim(compareMatch[2]))
        ELSE IF IsRelationship(lower)
        THEN IF FirstParcelId(q) # <<>> THEN _relationships(this, FirstParcelId(q)[1])
             ELSE _error("Please specify a parcel ID (e.g., kml_12345) for relationship queries.")
        ELSE IF IsRanking(lower) THEN _ranking(this, lower)
        ELSE IF parcelMatch # <<>> THEN _parcelLookup(this, parcelMatch[1])
        ELSE IF IsFacilityQuery(lower) THEN _facilityQuery(this, lower)
        ELSE IF IsStatistics(lower) THEN _statistics(this, lower)
        ELSE IF matchedCat # null THEN _categoryInfo(this, matchedCat)
        ELSE IF IsOverview(lower) THEN _overview(this)
        ELSE IF IsFacilityTypes(lower) THEN _facilityTypes(this)
        ELSE IF IsEdgeTypes(lower) THEN _edgeTypes(this)
        ELSE _fallback(q)

\* a query that tries the statistics rule before the ranking rule
query_StatisticsBeforeRanking(this, txt) ==
    LET q == trim(txt)
        lower == toLowerCase(q)
        parcelMatch == FirstParcelId(q)
        compareMatch == CompareMatch(lower)
        matchedCat == _matchCategory(lower)
    IN  IF q = "" THEN _error("Please enter a query.")
        ELSE IF parcelMatch # <<>> THEN _parcelLookup(this, parcelMatch[1])
        ELSE IF IsMethodology(lower) THEN _methodology(this)
        ELSE IF compareMatch # <<>>
        THEN _comparison(this, trim(compareMatch[1]), trim(compareMatch[2]))
        ELSE IF IsRelationship(lower)
        THEN _error("Please specify a parcel ID (e.g., kml_12345) for relationship queries.")
        ELSE IF IsStatistics(lower) THEN _statistics(this, lower)
        ELSE IF IsRanking(lower) THEN _ranking(this, lower)
        ELSE IF IsFacilityQuery(lower) THEN _facilityQuery(this, lower)
        ELSE IF matchedCat # null THEN _categoryInfo(this, matchedCat)
        ELSE IF IsOverview(lower) THEN _overview(this)
        ELSE IF IsFacilityTypes(lower) THEN _facilityTypes(this)
        ELSE IF IsEdgeTypes(lower) THEN _edgeTypes(this)
        ELSE _fallback(q)

\* a query whose relationship rule lets a text without an id fall through to
\* the later rules
query_RelationshipFallsThrough(this, txt) ==
    LET q == trim(txt)
        lower == toLowerCase(q)
        parcelMatch == FirstParcelId(q)
        compareMatch == CompareMatch(lower)
        matchedCat == _matchCategory(lower)
    IN  IF q = "" THEN _error("Please enter a query.")
        ELSE IF parcelMatch # <<>> THEN _parcelLookup(this, parcelMatch[1])
        ELSE IF IsMethodology(lower) THEN _methodology(this)
        ELSE IF compareMatch # <<>>
        THEN _comparison(this, trim(compareMatch[1]), trim(compareMatch[2]))
        ELSE IF IsRanking(lower) THEN _ranking(this, lower)
        ELSE IF IsFacilityQuery(lower) THEN _facilityQuery(this, lower)
        ELSE IF IsStatistics(lower) THEN _statistics(this, lower)
        ELSE IF matchedCat # null THEN _categoryInfo(this, matchedCat)
        ELSE IF IsOverview(lower) THEN _overview(this)
        ELSE IF IsFacilityTypes(lower) THEN _facilityTypes(this)
        ELSE IF IsEdgeTypes(lower) THEN _edgeTypes(this)
        ELSE _fallback(q)

\* QueryEngine.query
query(this, txt) ==
    LET q == trim(txt)
        lower == toLowerCase(q)
        parcelMatch == FirstParcelId(q)
        compareMatch == CompareMatch(lower)
        matchedCat == _matchCategory(lower)
    IN  IF q = "" THEN _error("Please enter a query.")
        ELSE IF parcelMatch # <<>> THEN _parcelLookup(this, parcelMatch[1])
        ELSE IF IsTellMeAbout(lower) /\ FirstParcelId(q) # <<>>
        THEN _parcelLookup(this, FirstParcelId(q)[1])
        ELSE IF IsMethodology(lower) THEN _methodology(this)
        ELSE IF compareMatch # <<>>
        THEN _comparison(this, trim(compareMatch[1]), trim(compareMatch[2]))
        ELSE IF IsRelationship(lower)
        THEN IF FirstParcelId(q) # <<>> THEN _relationships(this, FirstParcelId(q)[1])
             ELSE _error("Please specify a parcel ID (e.g., kml_12345) for relationship queries.")
        ELSE IF IsRanking(lower) THEN _ranking(this, lower)
        ELSE IF IsFacilityQuery(lower) THEN _facilityQuery(this, lower)
        ELSE IF IsStatistics(lower) THEN _statistics(this, lower)
        ELSE IF matchedCat # null THEN _categoryInfo(this, matchedCat)
        ELSE IF IsOverview(lower) THEN _overview(this)
        ELSE IF IsFacilityTypes(lower) THEN _facilityTypes(this)
        ELSE IF IsEdgeTypes(lower) THEN _edgeTypes(this)
        ELSE _fallback(q)

(***************************************************************************)
(* The state machine: an engine constructed over a Graph Store, the text   *)
(* of the query issued to it and the result it returned.  The behaviours   *)
(* of the specifications below construct the engine and issue one query,   *)
(* those of SpecSession any number of queries.                             *)
(***************************************************************************)
\* result before the query has been issued
NoResult == [type |-> "none"]

\* Object.entries(this.edgeTypeCounts).sort(...) of _overview and _edgeTypes: a
\* new array of the types, in the order the edges first name them, with their
\* counts, sorted by count
SortedEdgeTypeCounts(this) ==
    LET TypeOf(e) == e[3]
        types == Distinct(Map(this.edges, TypeOf))
        Count(entry) == entry[2]
        entries == NewArray([i \in 1..Len(types) |-> <<types[i], this.edgeTypeCounts[types[i]]>>])
    IN  sort(entries, SortDescending(entries.items, Map(entries.items, Count)))

\* The arrays that query(txt) sorts and that come from a field of the engine by
\* a spread, filter, map or Object.entries, as they are after the call, by the
\* handler that answers the text.  The other calls that change an object are
\* on objects the same function makes with a literal: the push to the groups
\* of connByType and to allNeighborIds (329-330, 830-833, 858), the counters
\* (598-602, 759, 865, 1143) with the sort of their entries (763, 1147), and
\* the sort of the entries of labelMap (1321).  Nothing assigns to a field of
\* this or of a node.
InPlace(this, txt) ==
    LET q == trim(txt)
        lower == toLowerCase(q)
        metric == _matchMetric(lower)
        ft == _matchFacilityType(this.allFacilityTypes, lower)
        matchedCat == _matchCategory(lower)
    IN  IF q = "" \/ FirstParcelId(q) # <<>> THEN <<>>
        ELSE IF IsMethodology(lower) \/ CompareMatch(lower) # <<>> \/ IsRelationship(lower)
        THEN <<>>
        ELSE IF IsRanking(lower)
        THEN IF metric = null THEN <<>> ELSE <<_rankingSorted(this, lower)>>
        ELSE IF IsFacilityQuery(lower)
        THEN IF ft = null THEN <<SortedFacilityTypes(this)>>
             ELSE IF Len(WithFacility(this, ft)) = 0 THEN <<>>
             ELSE <<_facilityQuerySorted(this, ft)>>
        ELSE IF IsStatistics(lower)
        THEN IF metric = null THEN <<>> ELSE medianSorted(StatisticsValues(this, METRICS[metric].key))
        ELSE IF matchedCat # null
        THEN IF Len(this.byCategory[matchedCat]) = 0 THEN <<>>
             ELSE <<_categoryInfoSorted(this, matchedCat)>>
        ELSE IF IsOverview(lower) THEN <<SortedEdgeTypeCounts(this), SortedFacilityTypes(this)>>
        ELSE IF IsFacilityTypes(lower) THEN <<>>
        ELSE IF IsEdgeTypes(lower) THEN <<SortedEdgeTypeCounts(this)>>
        ELSE <<>>

\* the engine when query(txt) has returned or raised: the engine's own arrays
\* among those of InPlace hold the elements in the order the call left them
RECURSIVE WrittenBack(_, _)
WrittenBack(this, arrays) ==
    IF arrays = <<>> THEN this
    ELSE IF Head(arrays).owner = <<>> THEN WrittenBack(this, Tail(arrays))
    ELSE IF Len(Head(arrays).owner) = 1
    THEN WrittenBack([this EXCEPT ![Head(arrays).owner[1]] = Head(arrays).items],
                     Tail(arrays))
    ELSE WrittenBack([this EXCEPT ![Head(arrays).owner[1]][Head(arrays).owner[2]]
                                      = Head(arrays).items],
                     Tail(arrays))

EngineAfterQuery(this, txt) ==
    CHOOSE after \in {WrittenBack(this, arrays) : arrays \in {InPlace(this, txt)}} : TRUE

\* queryEngine.query(t)
Query(t) ==
    /\ text' = t
    /\ result' = query(engine, t)
    /\ engine' = EngineAfterQuery(engine, t)

\* the engine app.js constructs over a node and an edge array (initQuery)
EngineOver(nodes, edges) ==
    QueryEngine(nodes, edges, BuildAdj(nodes, edges), BuildNodeMap(nodes))

(***************************************************************************)
(* Graph Stores of the model.  Parcel i has the id kml_<i>.                *)
(***************************************************************************)
FacilityStrings == <<"Cafe, Bar", "", "Garden,Cafe">>

Parcel(i, category, e) ==
    [ id |-> "kml_" \o NumToString(i), lat |-> i, lng |-> 100 + i,
      category |-> category, e |-> e, gfa |-> JsNum(10 * i), ti |-> JsNum(i % 2),
      ft |-> FacilityStrings[(i % 3) + 1] ]

\* the categories of the catalogue's parcels, in turn; "Industrial" is no known key
CatalogueCategories ==
    <<"HighDensity", "Peripheral", "HighDensity", "Industrial", "LifestyleHub">>

CatalogueNodes(n) ==
    [i \in 1..n |->
        Parcel(i, CatalogueCategories[((i - 1) % Len(CatalogueCategories)) + 1], JsNum(i % 3))]

\* a path 0 - 1 - ... - (n-1) of "sim" edges and a "sn_Bar" edge from each node to node 0
CatalogueEdges(n) ==
    [k \in 1..(n - 1) |-> <<k - 1, k, "sim">>] \o [k \in 1..(n - 1) |-> <<k, 0, "sn_Bar">>]

\* Two stores a faulty loader could hand over: one whose adjacency index names a
\* node that does not exist, one whose first node has no position.
DanglingEngine ==
    LET nodes == CatalogueNodes(MaxNodes)
        edges == CatalogueEdges(MaxNodes)
        adj == BuildAdj(nodes, edges)
    IN  QueryEngine(nodes, edges,
                    [adj EXCEPT ![1] = Append(@, <<MaxNodes + 4, "sim">>)],
                    BuildNodeMap(nodes))

NoPositionEngine ==
    LET nodes == CatalogueNodes(MaxNodes)
        bare == [f \in DOMAIN nodes[1] \ {"lat", "lng"} |-> nodes[1][f]]
    IN  EngineOver([nodes EXCEPT ![1] = bare], CatalogueEdges(MaxNodes))

\* every adjacency entry references an in-range node, every node has id, lat and lng
WellFormed(this) ==
    /\ \A i \in 1..Len(this.adj) : \A c \in 1..Len(this.adj[i]) :
           InRange(this.nodes, this.adj[i][c][1])
    /\ \A i \in 1..Len(this.nodes) : {"id", "lat", "lng"} \subseteq DOMAIN this.nodes[i]

(***************************************************************************)
(* Spec: the dispatcher.  Query texts are one phrase or two phrases joined  *)
(* by a space.  kml_1 is a parcel of every non-empty store of the model,    *)
(* kml_99 of none.                                                          *)
(***************************************************************************)
Phrases ==
    { "", " ", "\t\n", "kml_1", "kml_99", "KML_1", "neighbors of", "top", "energy",
      "compare peripheral and high density", "how many", "peripheral", "classification",
      "which parcels have a cafe", "overview", "facilities", "edge type", "hello",
      "tell me about", "average energy", "connected to", "average",
      "which parcels have a pool", "compare peripheral and mars" }

Texts == Phrases \cup {a \o " " \o b : a \in Phrases, b \in Phrases}

Init ==
    /\ engine \in {EngineOver(CatalogueNodes(n), CatalogueEdges(n)) : n \in 0..MaxNodes}
                    \cup {DanglingEngine, NoPositionEngine}
    /\ text = ""
    /\ result = NoResult

Next ==
    /\ result = NoResult
    /\ \E t \in Texts : Query(t)

Spec == Init /\ [][Next]_vars

(***************************************************************************)
(* Properties of the dispatcher, under Spec.                               *)
(***************************************************************************)
\* the query has been answered: it returned a result or raised
Answered == result # NoResult

\* the query returned a result
Returned == Answered /\ "thrown" \notin DOMAIN result

\* the text is empty or holds white space only
IsBlank(txt) == \A i \in 1..Len(txt) : Ch(txt, i) \in SpaceChars

\* the types a result can have
ResultTypes ==
    {"parcel-detail", "ranking", "statistics", "statistic", "category", "facility",
     "relationship", "comparison", "methodology", "overview", "facility-types",
     "edge-types", "error"}

\* the result is the error result with this message
IsError(r, message) ==
    /\ DOMAIN r = {"title", "type", "html"}
    /\ r.type = "error"
    /\ r.title = "Error"
    /\ r.html = [kind |-> "error", message |-> message]

\* no rule before the comparison rule matches the text
ReachesComparison(txt) ==
    LET q == trim(txt)
        lower == toLowerCase(q)
    IN  /\ q # ""
        /\ FirstParcelId(q) = <<>>
        /\ ~IsMethodology(lower)

\* the text is dispatched to the statistics handler
ReachesStatistics(txt) ==
    LET lower == toLowerCase(trim(txt))
    IN  /\ ReachesComparison(txt)
        /\ CompareMatch(lower) = <<>>
        /\ ~IsRelationship(lower)
        /\ ~IsRanking(lower)
        /\ ~IsFacilityQuery(lower)
        /\ IsStatistics(lower)

\* C1: over a well-formed Graph Store, a non-empty text that mentions a parcel id
\* (kml_<digits>, in any letter case) is answered by the parcel lookup of the
\* first id mentioned, whatever keywords the text also holds: the detail of that
\* parcel when the store has it, the parcel-not-found error otherwise.
C1_ClassifierPriority ==
    (Answered /\ WellFormed(engine) /\ ~IsBlank(text) /\ FirstParcelId(text) # <<>>)
    => LET id == FirstParcelId(text)[1]
       IN  IF id \in DOMAIN engine.nodeMap
           THEN /\ Returned
                /\ result.type = "parcel-detail"
                /\ result.title = "Parcel " \o id
                /\ result.mapHighlights = <<id>>
           ELSE /\ Returned
                /\ IsError(result, "Parcel <strong>" \o id \o "</strong> was not found in the dataset.")

\* a text with a ranking keyword and the id of a parcel was answered with the
\* parcel's detail
C1_Witness ==
    /\ Returned
    /\ WellFormed(engine)
    /\ IsRanking(toLowerCase(text))
    /\ FirstParcelId(text) # <<>>
    /\ result.type = "parcel-detail"

\* C2: a text with relationship phrasing that names the id of a parcel of the
\* (well-formed) store is answered with a result of type 'relationship' whose
\* mapHighlights starts with that id.
C2_RelationshipRouting ==
    (/\ Answered /\ WellFormed(engine)
     /\ IsRelationship(toLowerCase(text))
     /\ FirstParcelId(text) # <<>>
     /\ FirstParcelId(text)[1] \in DOMAIN engine.nodeMap)
    => /\ Returned
       /\ result.type = "relationship"
       /\ "mapHighlights" \in DOMAIN result
       /\ result.mapHighlights # <<>>
       /\ result.mapHighlights[1] = FirstParcelId(text)[1]

\* a relationship question about a parcel of the store was answered with the
\* parcel's detail, not with its connections
C2_Witness ==
    /\ Returned
    /\ WellFormed(engine)
    /\ text = "neighbors of kml_1"
    /\ "kml_1" \in DOMAIN engine.nodeMap
    /\ result.type = "parcel-detail"

\* C6: a text that is empty or white space only is answered with the validation
\* error, a result with neither chartConfig nor mapHighlights, whatever the store.
C6_EmptyInput ==
    (Answered /\ IsBlank(text)) => (Returned /\ IsError(result, "Please enter a query."))

\* a text of white space only was answered with the validation error
C6_Witness ==
    /\ Returned
    /\ text # ""
    /\ IsBlank(text)
    /\ result.type = "error"

\* the first rule, in the order methodology, comparison, relationship, ranking,
\* facility-query, statistics, category-info, overview, facility-types,
\* edge-types, whose condition the text satisfies; "fallback" when none does
FirstMatchingRule(txt) ==
    LET lower == toLowerCase(trim(txt))
    IN  IF IsMethodology(lower) THEN "methodology"
        ELSE IF CompareMatch(lower) # <<>> THEN "comparison"
        ELSE IF IsRelationship(lower) THEN "relationship"
        ELSE IF IsRanking(lower) THEN "ranking"
        ELSE IF IsFacilityQuery(lower) THEN "facility-query"
        ELSE IF IsStatistics(lower) THEN "statistics"
        ELSE IF _matchCategory(lower) # null THEN "category-info"
        ELSE IF IsOverview(lower) THEN "overview"
        ELSE IF IsFacilityTypes(lower) THEN "facility-types"
        ELSE IF IsEdgeTypes(lower) THEN "edge-types"
        ELSE "fallback"

\* the text meets a failure condition on this engine: it is blank, or it names
\* a parcel id the store does not have, or it names none and the first rule that matches it
\* lacks what it needs (the relationship rule an id, the ranking rule a metric,
\* the statistics rule a metric when the text does not ask how many, the
\* facility rule a facility type, the comparison rule a category for each
\* side, the category rule a parcel of the category), or no rule matches it
FailureCondition(this, txt) ==
    LET q == trim(txt)
        lower == toLowerCase(q)
        rule == FirstMatchingRule(txt)
        sides == CompareMatch(lower)
    IN  IF q = "" THEN TRUE
        ELSE IF FirstParcelId(q) # <<>> THEN FirstParcelId(q)[1] \notin DOMAIN this.nodeMap
        ELSE    \/ rule \in {"relationship", "fallback"}
                \/ rule = "ranking" /\ _matchMetric(lower) = null
                \/ /\ rule = "statistics"
                   /\ _matchMetric(lower) = null
                   /\ ~includes(lower, "how many")
                   /\ ~includes(lower, "count")
                \/ rule = "facility-query"
                     /\ _matchFacilityType(this.allFacilityTypes, lower) = null
                \/ /\ rule = "comparison"
                   /\ \E k \in 1..2 : _matchCategory(trim(sides[k])) = null
                \/ rule = "category-info" /\ Len(this.byCategory[_matchCategory(lower)]) = 0

\* C7: over a well-formed Graph Store every text is answered with a result that
\* has a title, an html body and one of the known types, and nothing is raised;
\* every failure condition (a blank text, an unknown parcel id, an unresolved
\* metric, facility type or category, a relationship text without an id, a category without
\* parcels, a text no rule matches) gives a result of type 'error'.
C7_Totality ==
    (Answered /\ WellFormed(engine))
    => /\ Returned
       /\ {"title", "html", "type"} \subseteq DOMAIN result
       /\ result.type \in ResultTypes
       /\ FailureCondition(engine, text) => result.type = "error"

\* over a well-formed store a facility text that names no facility type was
\* answered with an error
C7_Witness ==
    /\ Returned
    /\ WellFormed(engine)
    /\ text = "which parcels have a pool"
    /\ FailureCondition(engine, text)
    /\ result.type = "error"

\* a statistics text without a metric, a ranking text without a metric, a
\* comparison with an unknown side, a category without parcels and a text no
\* rule matches were each answered with an error
C7_UnresolvedMetric ==
    Returned /\ WellFormed(engine) /\ text = "average" /\ result.type = "error"

C7_UnresolvedRankingMetric ==
    Returned /\ WellFormed(engine) /\ text = "top" /\ result.type = "error"

C7_UnresolvedCategory ==
    /\ Returned /\ WellFormed(engine) /\ result.type = "error"
    /\ text = "compare peripheral and mars"
    /\ "Peripheral" \in {engine.nodes[i].category : i \in 1..Len(engine.nodes)}

C7_EmptyCategory ==
    Returned /\ WellFormed(engine) /\ text = "peripheral" /\ result.type = "error"

C7_NoRule ==
    /\ Returned /\ WellFormed(engine) /\ result.type = "error"
    /\ result.title = "Query Not Understood"

\* the rule a returned result comes from, read off the body only that rule's
\* handler builds or off the error message only that rule gives
ProducingRule(r) ==
    LET kind == r.html.kind
        Says(p) == kind = "error" /\ Len(r.html.message) >= Len(p)
                      /\ SubSeq(r.html.message, 1, Len(p)) = p
    IN  CASE kind = "methodology" -> "methodology"
          [] kind = "comparison" \/ Says("Could not match ") -> "comparison"
          [] Says("Please specify a parcel ID ") -> "relationship"
          [] kind = "ranking" \/ Says("Could not determine which metric to rank.") -> "ranking"
          [] kind \in {"facility", "facility-none"}
                \/ Says("Could not determine which facility type.") -> "facility-query"
          [] kind \in {"facility-count", "category-count", "parcel-count", "metric-statistics"}
                \/ Says("Could not determine which metric to compute.") -> "statistics"
          [] kind = "category" \/ Says("No parcels found in category ") -> "category-info"
          [] kind = "overview" -> "overview"
          [] kind = "facility-types" -> "facility-types"
          [] kind = "edge-types" -> "edge-types"
          [] kind = "fallback" -> "fallback"
          [] OTHER -> "other"

\* C11: a non-empty text that mentions no parcel id is answered by the first rule
\* that matches it in the order methodology, comparison, relationship, ranking,
\* facility-query, statistics, category-info, overview, facility-types,
\* edge-types, and by the fallback when none matches: a text that satisfies the
\* conditions of several rules is answered by the earliest of them.
C11_FirstMatchWins ==
    (Answered /\ WellFormed(engine) /\ ~IsBlank(text) /\ FirstParcelId(text) = <<>>)
    => /\ Returned
       /\ ProducingRule(result) = FirstMatchingRule(text)

\* a text with a ranking keyword and a statistics keyword, and no metric, was
\* answered by the ranking rule
C11_Witness ==
    /\ Returned
    /\ WellFormed(engine)
    /\ FirstParcelId(text) = <<>>
    /\ IsRanking(toLowerCase(trim(text)))
    /\ IsStatistics(toLowerCase(trim(text)))
    /\ FirstMatchingRule(text) = "ranking"
    /\ ProducingRule(result) = "ranking"

\* C15: over a well-formed Graph Store, when the first id of a non-empty text is
\* no key of the id map the result is of type 'error', names the id and has no
\* chart and no map data; when it is a key the result is of type
\* 'parcel-detail', its mapHighlights is the list of that one id, and its
\* connections are those of the adjacency list at the node's position in the
\* node array: as many, and per edge type the same neighbors in the same order.
C15_ParcelLookup ==
    (Answered /\ WellFormed(engine) /\ ~IsBlank(text) /\ FirstParcelId(text) # <<>>)
    => LET id == FirstParcelId(text)[1]
       IN  IF id \notin DOMAIN engine.nodeMap
           THEN /\ Returned
                /\ result.type = "error"
                /\ includes(result.html.message, id)
                /\ DOMAIN result = {"title", "type", "html"}
           ELSE LET pos == CHOOSE i \in 1..Len(engine.nodes) : engine.nodes[i].id = id
                    list == engine.adj[pos]
                    types == {list[c][2] : c \in 1..Len(list)}
                    OfType(t) == LET Is(c) == c[2] = t IN SelectSeq(list, Is)
                    groups == result.html.groups
                IN  /\ Returned
                    /\ result.type = "parcel-detail"
                    /\ result.mapHighlights = <<id>>
                    /\ result.html.connections = Len(list)
                    /\ Len(groups) = Cardinality(types)
                    /\ \A t \in types : \E g \in 1..Len(groups) :
                          /\ groups[g].label = EdgeLabelOr(t)
                          /\ groups[g].count = Len(OfType(t))
                          /\ groups[g].shown =
                               [k \in 1..Len(OfType(t)) |-> engine.nodes[OfType(t)[k][1] + 1].id]

\* the detail of a parcel whose adjacency list holds edges of two types and
\* differs from the list of the next node
C15_Witness ==
    /\ Returned
    /\ WellFormed(engine)
    /\ result.type = "parcel-detail"
    /\ result.mapHighlights = <<"kml_1">>
    /\ Len(result.html.groups) = 2
    /\ result.html.connections = Len(engine.adj[1])
    /\ engine.adj[1] # engine.adj[2]

\* C17: a text with relationship phrasing and no parcel id, which the rules
\* before the relationship rule (methodology, comparison) do not match, is
\* answered with the error that asks for a parcel id, whatever later rule
\* (ranking, facility, statistics, category, overview, listings) it also matches.
C17_RelationshipNeedsId ==
    LET lower == toLowerCase(trim(text))
    IN  (/\ Answered
         /\ ReachesComparison(text)
         /\ CompareMatch(lower) = <<>>
         /\ IsRelationship(lower))
        => IsError(result, "Please specify a parcel ID (e.g., kml_12345) for relationship queries.")

\* a text with relationship phrasing, no id and the keyword of a later rule was
\* answered with the error that asks for a parcel id
C17_Witness ==
    LET lower == toLowerCase(trim(text))
    IN  /\ Returned
        /\ FirstParcelId(text) = <<>>
        /\ IsRelationship(lower)
        /\ IsRanking(lower) \/ IsStatistics(lower) \/ IsOverview(lower)
        /\ result.type = "error"
        /\ includes(result.html.message, "Please specify a parcel ID")

\* C19: a text that spells the id of a parcel of the store in another letter
\* case is taken as a mention of that parcel and answered with the parcel's
\* detail.
C19_CaseInsensitiveId ==
    (Answered /\ WellFormed(engine) /\ ~IsBlank(text) /\ FirstParcelId(text) # <<>>
        /\ toLowerCase(FirstParcelId(text)[1]) \in DOMAIN engine.nodeMap)
    => /\ Returned
       /\ result.type = "parcel-detail"
       /\ result.mapHighlights = <<toLowerCase(FirstParcelId(text)[1])>>

\* the id of a stored parcel, spelled in upper case, was taken as an id mention
\* and answered with the parcel-not-found error
C19_Witness ==
    /\ Returned
    /\ WellFormed(engine)
    /\ FirstParcelId(text) = <<"KML_1">>
    /\ "kml_1" \in DOMAIN engine.nodeMap
    /\ IsError(result, "Parcel <strong>KML_1</strong> was not found in the dataset.")

\* C26: over a store whose id map and adjacency index agree with the node
\* array, every element of a result's mapHighlights is the id of a node of the
\* node array, and a result of type 'error' has neither chartConfig nor
\* mapHighlights.
C26_HighlightsAreNodeIds ==
    (Returned /\ WellFormed(engine))
    => /\ "mapHighlights" \in DOMAIN result
          => \A k \in 1..Len(result.mapHighlights) :
                \E i \in 1..Len(engine.nodes) : engine.nodes[i].id = result.mapHighlights[k]
       /\ result.type = "error" => DOMAIN result \cap {"chartConfig", "mapHighlights"} = {}

\* a comparison that highlights parcels of both categories
C26_Witness ==
    /\ Returned
    /\ WellFormed(engine)
    /\ result.type = "comparison"
    /\ "mapHighlights" \in DOMAIN result
    /\ Len(result.mapHighlights) >= 2

\* an error result next to results with highlights from other handlers
C26_ErrorWitness ==
    /\ Returned
    /\ WellFormed(engine)
    /\ result.type = "error"
    /\ text = "hello"

(***************************************************************************)
(* SpecSession: any number of queries issued back to back to one engine.   *)
(***************************************************************************)
InitSession ==
    /\ engine \in {EngineOver(CatalogueNodes(n), CatalogueEdges(n)) : n \in 0..MaxNodes}
                    \cup {DanglingEngine, NoPositionEngine}
    /\ text = ""
    /\ result = NoResult

\* the phrases of Spec and ranking, statistics and category texts that make the
\* handlers sort and aggregate
SessionTexts ==
    Phrases \cup {"top energy", "bottom 2 by gfa", "average energy", "high density",
                  "neighbors of kml_1", "how many peripheral"}

NextSession == \E t \in SessionTexts : Query(t)

SpecSession == InitSession /\ [][NextSession]_vars

\* C12: a query leaves the engine as it found it (the node array with the order
\* of its elements, the edge array, the adjacency index, the id map and the
\* cached aggregates), so after any sequence of queries the engine is as it was
\* constructed, and a text issued again right after it was answered gets a
\* result equal to the first one.
C12_ReadOnly ==
    [][/\ engine' = engine
       /\ (Answered /\ text' = text) => result' = result]_vars

\* a ranking listed the parcels of the largest catalogue store in another order
\* than the node array's, and the engine is the one that was constructed
C12_Witness ==
    /\ Returned
    /\ result.type = "ranking"
    /\ Len(result.mapHighlights) = MaxNodes
    /\ result.mapHighlights # Map(engine.nodes, NodeId)
    /\ engine = EngineOver(CatalogueNodes(MaxNodes), CatalogueEdges(MaxNodes))

(***************************************************************************)
(* SpecAdjacency: app.js builds the adjacency index of a loaded store.     *)
(* Here engine holds the loaded arrays, the index under construction and   *)
(* the position of the script; the edge arrays are all the arrays of up to *)
(* MaxEdges edges between the nodes, self-loops and repeated edges         *)
(* included.                                                               *)
(***************************************************************************)
MaxEdges == 2

\* the edge arrays of up to len edges over n nodes
EdgeArrays(n, len) ==
    LET Triples == {<<a, b, t>> : a \in 0..(n - 1), b \in 0..(n - 1), t \in {"sim", "sn_Bar"}}
    IN  UNION {[1..l -> Triples] : l \in 0..len}

InitAdjacency ==
    /\ \E n \in 1..MaxNodes : \E edges \in EdgeArrays(n, MaxEdges) :
          engine = [ nodes |-> CatalogueNodes(n), edges |-> edges,
                     adj |-> [i \in 1..n |-> <<>>], pc |-> "build" ]
    /\ text = ""
    /\ result = NoResult

\* edges.forEach(function(e) {...})
BuildIndices ==
    /\ engine.pc = "build"
    /\ engine' = [engine EXCEPT !.adj = BuildAdj(engine.nodes, engine.edges), !.pc = "built"]
    /\ UNCHANGED <<text, result>>

NextAdjacency == BuildIndices

SpecAdjacency == InitAdjacency /\ [][NextAdjacency]_vars

\* C13: when the index is built, for every stored edge (a, b, t) the list of a
\* holds (b, t) and the list of b holds (a, t), every entry of a list comes from
\* a stored edge, and the lists hold twice as many entries as there are edges.
C13_SymmetricClosure ==
    engine.pc = "built"
    => LET adj == engine.adj
           edges == engine.edges
           Holds(i, entry) == \E c \in 1..Len(adj[i + 1]) : adj[i + 1][c] = entry
       IN  /\ \A k \in 1..Len(edges) :
                 /\ Holds(edges[k][1], <<edges[k][2], edges[k][3]>>)
                 /\ Holds(edges[k][2], <<edges[k][1], edges[k][3]>>)
           /\ \A i \in 1..Len(adj) : \A c \in 1..Len(adj[i]) :
                 \E k \in 1..Len(edges) :
                    \/ edges[k] = <<i - 1, adj[i][c][1], adj[i][c][2]>>
                    \/ edges[k] = <<adj[i][c][1], i - 1, adj[i][c][2]>>
           /\ Sum([i \in 1..Len(adj) |-> Len(adj[i])]) = 2 * Len(edges)

\* the index of a store with MaxEdges edges is built, the first edge joins two
\* different nodes and is found in the list of its second endpoint
C13_Witness ==
    /\ engine.pc = "built"
    /\ Len(engine.edges) = MaxEdges
    /\ engine.edges[1][1] # engine.edges[1][2]
    /\ \E c \in 1..Len(engine.adj[engine.edges[1][2] + 1]) :
          engine.adj[engine.edges[1][2] + 1][c] = <<engine.edges[1][1], engine.edges[1][3]>>

(***************************************************************************)
(* SpecEscaping: texts that carry markup characters, alone and inside the  *)
(* phrasing of the rules that echo a part of the text.                     *)
(***************************************************************************)
MarkupTexts ==
    LET Markup == {"<b>x</b>", "a&b", "a > b", "&lt;", "<", "plain"}
    IN  UNION {{ s,
                 "compare " \o s \o " and peripheral",
                 "compare Peripheral vs " \o s,
                 s \o " kml_1",
                 "kml_99 " \o s,
                 "top energy " \o s,
                 "how many " \o s,
                 "which parcels have a cafe " \o s } : s \in Markup}

InitEscaping ==
    /\ engine \in {EngineOver(CatalogueNodes(n), CatalogueEdges(n)) : n \in 0..MaxNodes}
    /\ text = ""
    /\ result = NoResult

NextEscaping ==
    /\ result = NoResult
    /\ \E t \in MarkupTexts : Query(t)

SpecEscaping == InitEscaping /\ [][NextEscaping]_vars

\* s holds no '<' and no '>', and each '&' in it starts &amp; &lt; or &gt;
IsEscaped(s) ==
    /\ "<" \notin CharSet(s)
    /\ ">" \notin CharSet(s)
    /\ Occ(s, "&") \subseteq (Occ(s, "&amp;") \cup Occ(s, "&lt;") \cup Occ(s, "&gt;"))

\* what a browser shows for the escaped string s: each &amp; &lt; &gt; read as
\* the character it stands for
Unescape(s) ==
    LET amp == Occ(s, "&amp;")
        lt == Occ(s, "&lt;")
        gt == Occ(s, "&gt;")
        tails == {j \in 1..Len(s) :
                    \/ \E i \in lt \cup gt : i < j /\ j <= i + 3
                    \/ \E i \in amp : i < j /\ j <= i + 4}
        Piece(i) == IF i \in tails THEN ""
                    ELSE IF i \in amp THEN "&"
                    ELSE IF i \in lt THEN "<"
                    ELSE IF i \in gt THEN ">"
                    ELSE SubSeq(s, i, i)
        RECURSIVE Cat(_, _)
        Cat(a, b) == IF a > b THEN ""
                     ELSE IF a = b THEN Piece(a)
                     ELSE LET h == (a + b) \div 2 IN Cat(a, h) \o Cat(h + 1, b)
    IN  Cat(1, Len(s))

\* C14: the parts of the user's text that a result's html repeats are escaped: the
\* fallback's echo of the query, the unmatched side named by the comparison
\* error and the parcel id hold no '<' or '>' and no '&' other than those of
\* &amp; &lt; &gt;, and read back as the part of the text they repeat.
C14_Escaping ==
    Returned
    => LET q == trim(text)
           html == result.html
           groups == CompareMatch(toLowerCase(q))
           before == "Could not match \"<strong>"
           after == "</strong>\" to a category. Available: "
       IN  /\ html.kind = "fallback"
                => IsEscaped(html.query) /\ Unescape(html.query) = q
           /\ (html.kind = "error" /\ includes(html.message, "Could not match "))
                => LET message == html.message
                       missing == SubSeq(message, Len(before) + 1, Min(Occ(message, after)) - 1)
                   IN  /\ SubSeq(message, 1, Len(before)) = before
                       /\ IsEscaped(missing)
                       /\ Unescape(missing) =
                            (IF _matchCategory(trim(groups[1])) = null
                             THEN trim(groups[1]) ELSE trim(groups[2]))
           /\ html.kind = "parcel"
                => IsEscaped(html.id) /\ Unescape(html.id) = FirstParcelId(q)[1]
           /\ (html.kind = "error" /\ includes(html.message, "was not found in the dataset"))
                => LET id == SubSeq(html.message, 16, Min(Occ(html.message, "</strong>")) - 1)
                   IN  IsEscaped(id) /\ Unescape(id) = FirstParcelId(q)[1]

\* the comparison error named an unmatched side that the user typed as <b>x</b>
C14_Witness ==
    /\ Returned
    /\ includes(text, "<b>x</b>")
    /\ result.html.kind = "error"
    /\ includes(result.html.message, "Could not match ")
    /\ includes(result.html.message, "&lt;b&gt;x&lt;/b&gt;")

(***************************************************************************)
(* SpecRanking: ranking queries over stores whose parcels carry every      *)
(* combination of energy values: a number in 0..MaxValue, NaN, null, or no  *)
(* value at all; and over one store of ManyNodes parcels, more than the     *)
(* largest count a ranking lists.                                           *)
(***************************************************************************)
RankingValues == {JsNum(v) : v \in 0..MaxValue} \cup {JsNaN, JsNull, undefined}

\* parcel i with the energy value x (undefined: the node has no field e)
RankedParcel(i, x) ==
    LET d == Parcel(i, CatalogueCategories[((i - 1) % Len(CatalogueCategories)) + 1], x)
    IN  IF x = undefined THEN [f \in DOMAIN d \ {"e"} |-> d[f]] ELSE d

RankingEngines ==
    UNION {{EngineOver([i \in 1..n |-> RankedParcel(i, xs[i])], <<>>) :
                xs \in [1..n -> RankingValues]} : n \in 0..MaxNodes}

ManyEngine ==
    EngineOver([i \in 1..ManyNodes |-> RankedParcel(i, JsNum(i % (MaxValue + 1)))], <<>>)

RankingTexts ==
    {dir \o num \o by : dir \in {"top", "Bottom"},
                        num \in {"", " 0", " 2", " 51", " x1 2 of 3"},
                        by \in {" by energy"}}
    \cup {"top 2", "lowest 1 parcels by energy consumption"}

InitRanking ==
    /\ engine \in RankingEngines \cup {ManyEngine}
    /\ text = ""
    /\ result = NoResult

NextRanking ==
    /\ result = NoResult
    /\ \E t \in RankingTexts : Query(t)

SpecRanking == InitRanking /\ [][NextRanking]_vars

(***************************************************************************)
(* Properties of rankings, under SpecRanking.                              *)
(***************************************************************************)
\* the node field a ranking text resolves to
RankedKey(txt) == METRICS[_matchMetric(toLowerCase(txt))].key

\* the positions (from 1) of the engine's nodes that have a number in that field
Eligible(txt) ==
    {i \in 1..Len(engine.nodes) :
        RankedKey(txt) \in DOMAIN engine.nodes[i] /\ engine.nodes[i][RankedKey(txt)].t = "number"}

\* the position of the node a listed id belongs to (ids are unique in these stores)
PositionOf(id) == CHOOSE i \in 1..Len(engine.nodes) : engine.nodes[i].id = id

\* the text holds a keyword that turns the ranking upside down
AsksBottom(txt) ==
    \E w \in {"bottom", "lowest", "smallest", "least", "worst"} : includes(toLowerCase(txt), w)

\* C8: the count N of a ranking is 10 when the text holds no standalone integer,
\* otherwise its first standalone integer k, with 50 for k > 50 and 10 for k < 1;
\* the table, the chart and mapHighlights each list min(N, number of nodes with a
\* value of the metric) parcels.
C8_RankingCount ==
    (Returned /\ result.type = "ranking")
    => LET m == FirstInteger(toLowerCase(text))
           k == parseInt(m[1])
           N == IF m = <<>> THEN 10 ELSE IF k > 50 THEN 50 ELSE IF k < 1 THEN 10 ELSE k
           eligible == Cardinality(Eligible(text))
           listed == IF N < eligible THEN N ELSE eligible
       IN  /\ result.html.count = N
           /\ Len(result.html.rows) = listed
           /\ Len(result.chartConfig.data) = listed
           /\ Len(result.chartConfig.labels) = listed
           /\ Len(result.mapHighlights) = listed

\* a ranking asked for 51 parcels of a store with more than 50 listed 50
C8_Witness ==
    /\ Returned
    /\ result.type = "ranking"
    /\ FirstInteger(toLowerCase(text)) = <<"51">>
    /\ Cardinality(Eligible(text)) > 50
    /\ Len(result.mapHighlights) = 50

\* C9: the listed parcels are distinct nodes with a number for the metric (none
\* with null, undefined or NaN), in non-increasing order of it (non-decreasing
\* with a bottom keyword); a listed parcel never comes after a left-out eligible
\* one in that order; parcels of equal value stand in node-array order.
C9_RankingOrder ==
    (Returned /\ result.type = "ranking")
    => LET ids == result.mapHighlights
           key == RankedKey(text)
           listed == {PositionOf(ids[r]) : r \in 1..Len(ids)}
           Val(i) == engine.nodes[i][key].v
           Before(a, b) == IF AsksBottom(text) THEN a <= b ELSE a >= b
       IN  /\ \A r \in 1..Len(ids) : \E i \in 1..Len(engine.nodes) : engine.nodes[i].id = ids[r]
           /\ Cardinality(listed) = Len(ids)
           /\ listed \subseteq Eligible(text)
           /\ \A r1, r2 \in 1..Len(ids) :
                 r1 < r2 =>
                    /\ Before(Val(PositionOf(ids[r1])), Val(PositionOf(ids[r2])))
                    /\ Val(PositionOf(ids[r1])) = Val(PositionOf(ids[r2]))
                          => PositionOf(ids[r1]) < PositionOf(ids[r2])
           /\ \A i \in listed : \A j \in Eligible(text) \ listed :
                 /\ Before(Val(i), Val(j))
                 /\ Val(i) = Val(j) => i < j

\* a ranking listed two parcels of equal value, which are not neighbours in the
\* node array: the parcel between them has no number
C9_Witness ==
    /\ Returned
    /\ result.type = "ranking"
    /\ Len(result.mapHighlights) = 2
    /\ result.chartConfig.data[1] = result.chartConfig.data[2]
    /\ PositionOf(result.mapHighlights[2]) > PositionOf(result.mapHighlights[1]) + 1
    /\ Eligible(text) # 1..Len(engine.nodes)

(***************************************************************************)
(* SpecCategories: count, statistics and comparison queries over stores     *)
(* whose parcels carry every combination of the categories of              *)
(* CategoryChoices ("Industrial" is no known key), and over one store with  *)
(* a parcel of each known category.                                         *)
(***************************************************************************)
CategoryChoices == <<"HighDensity", "Peripheral", "Industrial">>

CategoryEngines ==
    UNION {{EngineOver([i \in 1..n |-> Parcel(i, CategoryChoices[cs[i]], JsNum(i % 3))],
                       CatalogueEdges(n)) :
                cs \in [1..n -> 1..Len(CategoryChoices)]} : n \in 0..MaxNodes}

\* parcels 1..6 of the six categories in the order of CAT_KEYS, then an
\* "Industrial" one and a second "Peripheral" one
AllCategoriesEngine ==
    LET cats == CAT_KEYS \o <<"Industrial", "Peripheral">>
    IN  EngineOver([i \in 1..Len(cats) |-> Parcel(i, cats[i], JsNum(i % 3))],
                   CatalogueEdges(Len(cats)))

\* the count question about each category, statistics texts with and without a
\* metric, and comparisons
CategoryTexts ==
    {"How many parcels are " \o CAT_LABELS[k] \o "?" : k \in Categories}
    \cup { "how many parcels", "count of dense", "how many cafe", "how many peripheral cafe",
           "how many garden", "average", "mean of peripheral", "total cafe", "median",
           "standard deviation", "sum", "std dev", "average energy", "how many units" }
    \cup {"compare " \o a \o " and " \o b :
              a \in {"peripheral", "lifestylehub", "high density", "foo"},
              b \in {"peripheral", "lifestylehub", "high density", "foo"}}
    \cup {"compare peripheral" \o c \o "high density" : c \in {" vs ", " vs. ", " versus ", " with "}}
    \cup {"Compare Peripheral and LifestyleHub", "compare peripheral and", "compare",
          "compare foo and baz", "peripheral", "lifestyle hub parcels", "high density"}

InitCategories ==
    /\ engine \in CategoryEngines \cup {AllCategoriesEngine}
    /\ text = ""
    /\ result = NoResult

NextCategories ==
    /\ result = NoResult
    /\ \E t \in CategoryTexts : Query(t)

SpecCategories == InitCategories /\ [][NextCategories]_vars

(***************************************************************************)
(* Properties of counts, statistics and comparisons, under SpecCategories. *)
(***************************************************************************)
\* the ids of the engine's nodes of a category, in node-array order
IdsIn(cat) ==
    LET InCat(d) == d.category = cat IN Map(Filter(engine.nodes, InCat), NodeId)

\* C4: for every category C, 'How many parcels are <display label of C>?' is
\* answered with a result of type 'statistic' whose count is the size of C's
\* bucket, whose percentage is that size over the node count and whose
\* mapHighlights are the ids of C's bucket.
C4_CategoryCount ==
    \A k \in Categories :
        (Answered /\ text = "How many parcels are " \o CAT_LABELS[k] \o "?")
        => /\ Returned
           /\ result.type = "statistic"
           /\ result.html.kind = "category-count"
           /\ result.html.count = Len(IdsIn(k))
           /\ result.html.total = Len(engine.nodes)
           /\ result.html.percent = PercentFixed1(Len(IdsIn(k)), Len(engine.nodes))
           /\ result.mapHighlights = IdsIn(k)

\* the count question about the Transit-Oriented category, over a store with a
\* parcel of it, was answered with the statistics of the Transit Index
C4_Witness ==
    /\ Returned
    /\ text = "How many parcels are Transit-Oriented?"
    /\ IdsIn("TransitOriented") # <<>>
    /\ result.type = "statistics"
    /\ result.html.label = "Transit Index"

\* C5 as stated: a text dispatched to the statistics handler in which no metric
\* is recognized is answered with a count-style result of type 'statistic',
\* never with an error.
C5_AlwaysCountStyle ==
    (Answered /\ ReachesStatistics(text) /\ _matchMetric(toLowerCase(trim(text))) = null)
    => (Returned /\ result.type = "statistic")

\* C5, amended: a text dispatched to the statistics handler in which no metric
\* is recognized is answered with a count-style result of type 'statistic' when
\* it holds "how many" or "count": the category count if a category phrase
\* matches, else the facility-type count if a facility alias matches, else the
\* dataset size; without "how many" and "count" it is answered with the error
\* that no metric could be determined.
C5_StatisticsFallback ==
    (Answered /\ ReachesStatistics(text) /\ _matchMetric(toLowerCase(trim(text))) = null)
    => LET lower == toLowerCase(trim(text))
       IN  /\ Returned
           /\ IF includes(lower, "how many") \/ includes(lower, "count")
              THEN /\ result.type = "statistic"
                   /\ result.html.kind =
                        IF _matchCategory(lower) # null THEN "category-count"
                        ELSE IF _matchFacilityType(engine.allFacilityTypes, lower) # null
                        THEN "facility-count"
                        ELSE "parcel-count"
              ELSE IsError(result, "Could not determine which metric to compute. Try: energy, gfa, transit, diversity, buildings, units.")

\* a statistics text without a metric, without "how many" and without "count"
\* was answered with the error
C5_Witness ==
    /\ Returned
    /\ ReachesStatistics(text)
    /\ _matchMetric(toLowerCase(trim(text))) = null
    /\ _matchCategory(toLowerCase(trim(text))) # null
    /\ result.type = "error"

\* C10: a text 'compare A and/vs/versus/with B' that reaches the comparison rule
\* and whose two sides resolve to categories is answered with a result of type
\* 'comparison' whose mapHighlights are the ids of A's bucket followed by the ids
\* of B's bucket.
C10_ComparisonHighlights ==
    LET lower == toLowerCase(trim(text))
        sides == CompareMatch(lower)
    IN  (/\ Answered /\ ReachesComparison(text) /\ sides # <<>>
         /\ _matchCategory(trim(sides[1])) # null
         /\ _matchCategory(trim(sides[2])) # null)
        => /\ Returned
           /\ result.type = "comparison"
           /\ result.mapHighlights =
                IdsIn(_matchCategory(trim(sides[1]))) \o IdsIn(_matchCategory(trim(sides[2])))

\* two different categories, each with parcels, were compared
C10_Witness ==
    /\ Returned
    /\ result.type = "comparison"
    /\ text = "compare peripheral and high density"
    /\ IdsIn("Peripheral") # <<>>
    /\ IdsIn("HighDensity") # <<>>
    /\ Len(result.mapHighlights) = Len(IdsIn("Peripheral")) + Len(IdsIn("HighDensity"))

\* C22: when the comparison rule answers a text and a side does not resolve to a
\* category, the result is of type 'error', has no chart and no map data, and
\* names the text of side A when A does not resolve (also when B does not
\* either) and the text of side B when only B does not resolve.
C22_ComparisonFailure ==
    LET lower == toLowerCase(trim(text))
        groups == CompareMatch(lower)
        nameA == trim(groups[1])
        nameB == trim(groups[2])
        Names(side) ==
            LET start == "Could not match \"<strong>" \o side \o "</strong>\" to a category."
            IN  /\ Len(result.html.message) >= Len(start)
                /\ SubSeq(result.html.message, 1, Len(start)) = start
    IN  (/\ Answered
         /\ ReachesComparison(text)
         /\ groups # <<>>
         /\ _matchCategory(nameA) = null \/ _matchCategory(nameB) = null)
        => /\ Returned
           /\ result.type = "error"
           /\ DOMAIN result = {"title", "type", "html"}
           /\ IF _matchCategory(nameA) = null THEN Names(nameA) ELSE Names(nameB)

\* neither side of a comparison resolved, the sides differ, and the error names
\* side A
C22_Witness ==
    LET groups == CompareMatch(toLowerCase(trim(text)))
    IN  /\ Returned
        /\ groups # <<>>
        /\ _matchCategory(trim(groups[1])) = null
        /\ _matchCategory(trim(groups[2])) = null
        /\ groups[1] # groups[2]
        /\ result.type = "error"
        /\ includes(result.html.message, "<strong>" \o trim(groups[1]) \o "</strong>")

\* C23: the engine has a catStats record for each of the six category keys,
\* whose count is the number of nodes of that category; for a category without
\* nodes the record is {count: 0} and nothing else, and a text that the
\* category rule answers for such a category gets a result of type 'error'.
C23_EmptyCategoryAggregate ==
    /\ DOMAIN engine.catStats = Categories
    /\ \A cat \in Categories :
          LET members == {i \in 1..Len(engine.nodes) : engine.nodes[i].category = cat}
          IN  /\ engine.catStats[cat].count = Cardinality(members)
              /\ Len(engine.byCategory[cat]) = Cardinality(members)
              /\ members = {} => engine.catStats[cat] = [count |-> 0]
              /\ members # {} => "avgGFA" \in DOMAIN engine.catStats[cat]
    /\ (Answered /\ FirstMatchingRule(text) = "category-info" /\ FirstParcelId(text) = <<>>)
        => LET cat == _matchCategory(toLowerCase(trim(text)))
           IN  /\ Returned
               /\ Len(engine.byCategory[cat]) = 0
                    => /\ result.type = "error"
                       /\ result.html.message =
                            "No parcels found in category <strong>" \o CAT_LABELS[cat] \o "</strong>."
               /\ Len(engine.byCategory[cat]) > 0 => result.type = "category"

\* a store with parcels but none of the category asked for: the category's
\* record is {count: 0} and the answer the error
C23_Witness ==
    /\ Returned
    /\ Len(engine.nodes) > 0
    /\ FirstMatchingRule(text) = "category-info"
    /\ engine.catStats[_matchCategory(toLowerCase(trim(text)))] = [count |-> 0]
    /\ result.type = "error"
    /\ includes(result.html.message, "No parcels found in category")

(***************************************************************************)
(* SpecUnknownCategory: the handlers that report per category, over stores *)
(* whose parcels take their categories from two known keys and the unknown *)
(* "Industrial".  The relationship handler is called as it is, since query *)
(* hands a text with a parcel id to the parcel lookup.                     *)
(***************************************************************************)
PerCategoryTexts ==
    {"overview", "which parcels have a cafe", "parcels with garden", "average energy"}

InitUnknownCategory ==
    /\ engine \in CategoryEngines
    /\ text = ""
    /\ result = NoResult

\* queryEngine._relationships(id)
Relationships(id) ==
    /\ text' = id
    /\ result' = _relationships(engine, id)
    /\ engine' = engine

NextUnknownCategory ==
    /\ result = NoResult
    /\ \/ \E t \in PerCategoryTexts : Query(t)
       \/ \E id \in DOMAIN engine.nodeMap : Relationships(id)

SpecUnknownCategory == InitUnknownCategory /\ [][NextUnknownCategory]_vars

\* C16: a node whose category is none of the six known keys is in no
\* per-category table (overview, statistics breakdown, facility breakdown,
\* neighbor distribution), and the shares those tables report are taken over
\* the nodes of known categories only.
C16_UnknownDropped ==
    Returned
    => LET html == result.html
           IsKnown(d) == d.category \in Categories
           known == Len(SelectSeq(engine.nodes, IsKnown))
       IN  /\ html.kind = "overview"
                => \A c \in DOMAIN html.catRows :
                      /\ CAT_KEYS[c] \in Categories
                      /\ html.catRows[c].share = PercentFixed1(html.catRows[c].count, known)
           /\ html.kind = "metric-statistics"
                => \A c \in DOMAIN html.byCategory : CAT_KEYS[c] \in Categories
           /\ html.kind = "facility"
                => LET rows == html.catRows
                       listed == Sum([r \in 1..Len(rows) |->
                                        IF rows[r].category \in Categories THEN rows[r].count ELSE 0])
                   IN  \A r \in 1..Len(rows) :
                          /\ rows[r].category \in Categories
                          /\ rows[r].share = PercentFixed1(rows[r].count, listed)
           /\ html.kind = "relationship"
                => \A k \in 1..Len(result.chartConfig.data) :
                      result.chartConfig.data[k].category \in Categories

\* the facility breakdown has a row for a category that is no known key
C16_Witness ==
    /\ Returned
    /\ result.html.kind = "facility"
    /\ \E r \in 1..Len(result.html.catRows) :
          /\ result.html.catRows[r].category \notin Categories
          /\ result.html.catRows[r].label = "undefined"

(***************************************************************************)
(* SpecFacility: each facility keyword alone and in phrasings with and     *)
(* without "which", "parcels" and "has".                                   *)
(***************************************************************************)
FacilityTexts ==
    UNION {{ f, "has " \o f, "Has a " \o f, "it has the " \o f, "near a " \o f,
             "which parcels have a " \o f, "parcels with " \o f, "how many " \o f,
             "top " \o f } : f \in FacilityNouns}

InitFacility ==
    /\ engine \in {EngineOver(CatalogueNodes(n), CatalogueEdges(n)) : n \in 0..MaxNodes}
    /\ text = ""
    /\ result = NoResult

NextFacility ==
    /\ result = NoResult
    /\ \E t \in FacilityTexts : Query(t)

SpecFacility == InitFacility /\ [][NextFacility]_vars

\* no rule before the facility rule matches the text, and the text names a
\* facility keyword
NamesFacilityKeyword(txt) ==
    LET lower == toLowerCase(trim(txt))
    IN  /\ ReachesComparison(txt)
        /\ CompareMatch(lower) = <<>>
        /\ ~IsRelationship(lower)
        /\ ~IsRanking(lower)
        /\ \E f \in FacilityNouns : includes(lower, f)

\* C18 as stated: a text that names a facility keyword and that no earlier rule
\* matches is answered by the facility rule, whatever its phrasing.
C18_AnyKeywordRouting ==
    (Answered /\ NamesFacilityKeyword(text))
    => Returned /\ ProducingRule(result) = "facility-query"

\* C18, amended: a text that names a facility keyword and that no earlier rule
\* matches is answered by the facility rule when the keyword follows 'has ' or
\* 'has a ', or when the text has the 'which ... have/with/contain' or the
\* 'parcels ... have/with' phrasing; a text that names the keyword in another
\* way is left to the later rules.
C18_HasKeywordRouting ==
    LET lower == toLowerCase(trim(text))
        hasKeyword ==
            \E f \in FacilityNouns : includes(lower, "has " \o f) \/ includes(lower, "has a " \o f)
        phrased ==
            \/ DotStar(lower, "which", {"have", "with", "contain"})
            \/ DotStar(lower, "parcels", {"have", "with"})
    IN  (Answered /\ NamesFacilityKeyword(text))
        => /\ Returned
           /\ (hasKeyword \/ phrased) <=> ProducingRule(result) = "facility-query"

\* a text that says 'has' before a keyword, without 'which' and 'parcels', was
\* answered by the facility rule
C18_Witness ==
    LET lower == toLowerCase(trim(text))
    IN  /\ Returned
        /\ NamesFacilityKeyword(text)
        /\ ~includes(lower, "which")
        /\ ~includes(lower, "parcels")
        /\ includes(lower, "has a cafe")
        /\ result.type = "facility"
        /\ result.title = "Parcels with Cafe"

\* C24: when the facility rule answers a text, the result is of type 'error' if
\* no facility type resolves; otherwise the matching nodes are the nodes whose
\* comma-joined facility string has a trimmed token equal to the type ignoring
\* case: mapHighlights lists their ids in node-array order and the counts of the
\* category breakdown add up to their number; when there are none the result is
\* of type 'facility' with no chart and no map data.
C24_FacilityQuery ==
    LET lower == toLowerCase(trim(text))
        ft == _matchFacilityType(engine.allFacilityTypes, lower)
        HasToken(d) ==
            /\ "ft" \in DOMAIN d
            /\ \E k \in 1..Len(Split(d.ft)) : toLowerCase(trim(Split(d.ft)[k])) = toLowerCase(ft)
        matching == SelectSeq(engine.nodes, HasToken)
    IN  (Answered /\ FirstParcelId(text) = <<>> /\ FirstMatchingRule(text) = "facility-query")
        => /\ Returned
           /\ IF ft = null
              THEN /\ result.type = "error"
                   /\ includes(result.html.message, "Could not determine which facility type.")
              ELSE /\ result.type = "facility"
                   /\ result.title = "Parcels with " \o ft
                   /\ IF Len(matching) = 0
                      THEN DOMAIN result = {"title", "type", "html"}
                      ELSE /\ {"chartConfig", "mapHighlights"} \subseteq DOMAIN result
                           /\ result.mapHighlights = [i \in 1..Len(matching) |-> matching[i].id]
                           /\ result.html.count = Len(matching)
                           /\ Sum([r \in 1..Len(result.html.catRows) |->
                                     result.html.catRows[r].count]) = Len(matching)
                           /\ Sum(result.chartConfig.data) = Len(matching)

\* the parcels with a bar: the one whose facility string is "Cafe, Bar", found
\* by the token " Bar"
C24_Witness ==
    /\ Returned
    /\ result.type = "facility"
    /\ result.title = "Parcels with Bar"
    /\ Len(engine.nodes) >= 3
    /\ engine.nodes[3].ft = "Cafe, Bar"
    /\ result.mapHighlights = <<"kml_3">>

(***************************************************************************)
(* SpecRelationships: the relationship handler, called with the id of each *)
(* node and with an unknown id, over the stores of every edge array of up  *)
(* to MaxEdges edges and over a star whose centre has StarLeaves neighbors *)
(* by "sim" edges, more than a group displays, and two by "sn_Bar" edges.  *)
(***************************************************************************)
StarLeaves == 17

StarEngine ==
    EngineOver(CatalogueNodes(StarLeaves + 1),
               [k \in 1..StarLeaves |-> <<0, k, "sim">>] \o << <<1, 0, "sn_Bar">>, <<0, 2, "sn_Bar">> >>)

InitRelationships ==
    /\ \/ \E n \in 0..MaxNodes : \E edges \in EdgeArrays(n, MaxEdges) :
             engine = EngineOver(CatalogueNodes(n), edges)
       \/ engine = StarEngine
    /\ text = ""
    /\ result = NoResult

NextRelationships ==
    /\ result = NoResult
    /\ \E id \in DOMAIN engine.nodeMap \cup {"kml_99"} : Relationships(id)

SpecRelationships == InitRelationships /\ [][NextRelationships]_vars

\* C25: the relationship handler, called with an id that is no key of the id
\* map, returns a result of type 'error'; for a node with an empty adjacency
\* list a result of type 'relationship' with no chart and no map data;
\* otherwise one group per edge type, in order of first appearance, with the
\* size of the group, the first 15 of its neighbors and the overflow beyond 15,
\* and mapHighlights = the id, then the ids of all neighbors group by group:
\* one entry per adjacency entry.
C25_RelationshipHandler ==
    Answered
    => LET id == text
       IN  IF id \notin DOMAIN engine.nodeMap
           THEN /\ result.type = "error"
                /\ DOMAIN result = {"title", "type", "html"}
           ELSE LET pos == CHOOSE i \in 1..Len(engine.nodes) : engine.nodes[i].id = id
                    list == engine.adj[pos]
                    FirstOf(t) == Min({c \in 1..Len(list) : list[c][2] = t})
                    \* the entries type by type, types in order of first appearance
                    byType == SortAscending(list, [c \in 1..Len(list) |-> FirstOf(list[c][2])])
                    ids == [c \in 1..Len(list) |-> engine.nodes[byType[c][1] + 1].id]
                    types == {list[c][2] : c \in 1..Len(list)}
                    IdsOf(t) == LET Is(c) == c[2] = t
                                    ofType == SelectSeq(list, Is)
                                IN  [k \in 1..Len(ofType) |-> engine.nodes[ofType[k][1] + 1].id]
                IN  /\ result.type = "relationship"
                    /\ IF list = <<>>
                       THEN DOMAIN result = {"title", "type", "html"}
                       ELSE /\ {"chartConfig", "mapHighlights"} \subseteq DOMAIN result
                            /\ result.mapHighlights = <<id>> \o ids
                            /\ Len(result.mapHighlights) = 1 + Len(list)
                            /\ Len(result.html.groups) = Cardinality(types)
                            /\ \A t \in types : \E g \in 1..Len(result.html.groups) :
                                  LET group == result.html.groups[g]
                                  IN  /\ group.label = EdgeLabelOr(t)
                                      /\ group.count = Len(IdsOf(t))
                                      /\ group.shown =
                                           SubSeq(IdsOf(t), 1, IF Len(IdsOf(t)) > 15 THEN 15
                                                               ELSE Len(IdsOf(t)))
                                      /\ group.more = IF Len(IdsOf(t)) > 15
                                                      THEN Len(IdsOf(t)) - 15 ELSE 0

\* the centre of the star: a group of more than 15 neighbors of which 15 are
\* displayed, and all of them highlighted
C25_Witness ==
    /\ Returned
    /\ engine = StarEngine
    /\ text = "kml_1"
    /\ result.type = "relationship"
    /\ \E g \in 1..Len(result.html.groups) :
          /\ result.html.groups[g].count = StarLeaves
          /\ Len(result.html.groups[g].shown) = 15
          /\ result.html.groups[g].more = StarLeaves - 15
    /\ Len(result.mapHighlights) = StarLeaves + 3

(***************************************************************************)
(* SpecHistory: the query box of the page.  In this specification the      *)
(* variable engine holds the page state of the query tab: queryEngine      *)
(* (none when query-engine.js did not load), queryHistory, the value of    *)
(* the input box, the rendered history element and the number of calls of  *)
(* queryEngine.query made so far; text is the argument of the last         *)
(* runQuery call and result the content of the result container.           *)
(***************************************************************************)
MaxHistory == 11

HistoryTexts == {"", " \t", "overview", " overview ", "kml_1"}

\* var queryEngine = null
NoEngine == [loaded |-> FALSE]

\* the container content when no engine is loaded
NotLoaded == [kind |-> "not-loaded"]

\* renders every entry of the history
updateQueryHistory_All(queryHistory) ==
    IF Len(queryHistory) = 0 THEN [kind |-> "hint"]
    ELSE [kind |-> "items", items |-> queryHistory]

\* updateQueryHistory: the content of the history element
updateQueryHistory(queryHistory) ==
    IF Len(queryHistory) = 0 THEN [kind |-> "hint"]
    ELSE [kind |-> "items", items |-> Slice(queryHistory, 10)]

InitHistory ==
    /\ \E queryEngine \in {NoEngine, EngineOver(CatalogueNodes(MaxNodes), CatalogueEdges(MaxNodes))} :
          engine = [ queryEngine |-> queryEngine, queryHistory |-> <<>>, input |-> "",
                     historyEl |-> [kind |-> "hint"], queries |-> 0 ]
    /\ text = ""
    /\ result = NoResult

\* runQuery(text)
runQuery(t) ==
    \E trimmed \in {trim(t)} :
        /\ text' = t
        /\ IF trimmed = ""
           THEN UNCHANGED <<engine, result>>
           ELSE IF engine.queryEngine = NoEngine
           THEN /\ engine' = [engine EXCEPT !.input = trimmed]
                /\ result' = NotLoaded
           ELSE \E r \in {query(engine.queryEngine, trimmed)} :
                  \E history \in {<<[text |-> trimmed, title |-> r.title]>> \o engine.queryHistory} :
                    /\ engine' = [engine EXCEPT !.input = trimmed,
                                                !.queryHistory = history,
                                                !.historyEl = updateQueryHistory(history),
                                                !.queries = @ + 1]
                    /\ result' = r

NextHistory ==
    /\ Len(engine.queryHistory) < MaxHistory
    /\ \E t \in HistoryTexts : runQuery(t)

SpecHistory == InitHistory /\ [][NextHistory]_vars

\* C27: each runQuery call whose trimmed text is non-empty and that finds the
\* engine loaded puts one entry (the trimmed text and the title of the result)
\* in front of the unchanged older entries of queryHistory, whether or not the
\* text is already there, and makes one engine query; any other call leaves
\* queryHistory and the rendered history alone and makes no engine query; so
\* queryHistory has one entry per engine query, and the rendered history shows
\* its first min(10, length) entries.
C27_QueryHistory ==
    [][ LET accepted == trim(text') # "" /\ engine.queryEngine # NoEngine
            old == engine.queryHistory
            new == engine'.queryHistory
        IN  /\ IF accepted
               THEN /\ Len(new) = Len(old) + 1
                    /\ new[1].text = trim(text')
                    /\ new[1].title = result'.title
                    /\ \A k \in 1..Len(old) : new[k + 1] = old[k]
                    /\ engine'.queries = engine.queries + 1
               ELSE /\ new = old
                    /\ engine'.queries = engine.queries
                    /\ engine'.historyEl = engine.historyEl
            /\ Len(new) = engine'.queries
            /\ IF Len(new) = 0 THEN engine'.historyEl.kind = "hint"
               ELSE /\ engine'.historyEl.kind = "items"
                    /\ Len(engine'.historyEl.items) = (IF Len(new) < 10 THEN Len(new) ELSE 10)
                    /\ \A k \in 1..Len(engine'.historyEl.items) :
                          engine'.historyEl.items[k] = new[k] ]_vars

\* more than ten entries, the newest a text that is already in the history
C27_Witness ==
    /\ Len(engine.queryHistory) > 10
    /\ engine.queryHistory[1].text = engine.queryHistory[2].text
    /\ engine.queryHistory[1].text # engine.queryHistory[3].text
    /\ Len(engine.historyEl.items) = 10

\* a call without a loaded engine
C27_NotLoadedWitness ==
    /\ result = NotLoaded
    /\ engine.queryHistory = <<>>
    /\ engine.input = "overview"

(***************************************************************************)
(* SpecTabs: tab switching.  In this specification the variable engine     *)
(* holds the page state: tabFlags, the active tab, queryEngine, the number *)
(* of runs of each tab's initializer and of QueryEngine constructions, the *)
(* tabs shown so far and whether the last showTab was of a tab shown       *)
(* before; text is the argument of the last showTab call.                  *)
(***************************************************************************)
tabs == <<"dashboard", "network", "query", "q1", "q2", "q3", "q4", "ontology", "reports">>

TabIds == {tabs[i] : i \in 1..Len(tabs)}

\* the tabs with an initializer
InitTabs == TabIds \ {"dashboard"}

\* the property of tabFlags that guards the initializer of a tab
Flag(id) == IF id = "ontology" THEN "ont" ELSE IF id = "reports" THEN "rep" ELSE id

\* the initializer runs on every showTab of its tab
NeedsInit_Always(tabFlags, id) == id \in InitTabs

\* id === '<tab>' && !tabFlags.<flag>
NeedsInit(tabFlags, id) == id \in InitTabs /\ Flag(id) \notin tabFlags

InitTabsState ==
    /\ \E hasQueryEngine \in BOOLEAN :
          engine = [ hasQueryEngine |-> hasQueryEngine, tabFlags |-> {}, active |-> "dashboard",
                     queryEngine |-> NoEngine, runs |-> [id \in InitTabs |-> 0],
                     constructed |-> 0, shown |-> {}, again |-> FALSE ]
    /\ text = ""
    /\ result = NoResult

\* initQuery, as far as the engine goes
initQuery(page) ==
    IF page.hasQueryEngine
    THEN [page EXCEPT !.queryEngine = EngineOver(CatalogueNodes(MaxNodes), CatalogueEdges(MaxNodes)),
                      !.constructed = @ + 1]
    ELSE page

\* showTab(id)
showTab(id) ==
    LET activated == [engine EXCEPT !.active = id, !.shown = @ \cup {id},
                                    !.again = id \in engine.shown]
        flagged == [activated EXCEPT !.tabFlags = @ \cup {Flag(id)}, !.runs[id] = @ + 1]
    IN  /\ text' = id
        /\ engine' = IF NeedsInit(engine.tabFlags, id)
                     THEN IF id = "query" THEN initQuery(flagged) ELSE flagged
                     ELSE activated
        /\ UNCHANGED result

NextTabs == \E id \in TabIds : showTab(id)

SpecTabs == InitTabsState /\ [][NextTabs]_vars

\* C28: after any sequence of showTab calls the initializer of each of the
\* tabs network, query, q1, q2, q3, q4, ontology and reports has run exactly
\* once if the tab was ever shown and not at all otherwise, the QueryEngine has
\* been constructed at most once (once when the query tab was shown and the
\* class is loaded), and showing the dashboard has run no initializer.
C28_LazyTabInit ==
    /\ \A id \in InitTabs : engine.runs[id] = IF id \in engine.shown THEN 1 ELSE 0
    /\ engine.constructed <= 1
    /\ engine.constructed = (IF "query" \in engine.shown /\ engine.hasQueryEngine THEN 1 ELSE 0)
    /\ (engine.constructed = 1) = (engine.queryEngine # NoEngine)
    /\ engine.shown \subseteq {"dashboard"} => \A id \in InitTabs : engine.runs[id] = 0

\* every tab has been shown and the query tab has just been shown again
C28_Witness ==
    /\ engine.shown = TabIds
    /\ text = "query"
    /\ engine.again
    /\ engine.constructed = 1

(***************************************************************************)
(* JavaScript numbers: IEEE 754 binary64 with round to nearest, ties to    *)
(* even.  A number other than 0 is s * m * 2^e with s the sign and         *)
(* 2^52 <= m < 2^53, m = hi * 2^28 + lo.  Zero has no sign here, and the   *)
(* model's numbers stay far from the ends of the exponent range (no        *)
(* subnormal, infinite or NaN result).  Wider intermediate values are four *)
(* digits in base 2^28, lowest first.  Each operation takes the values of  *)
(* its arguments first (the CHOOSE over a set of one element).             *)
(***************************************************************************)
Limb == 2 ^ 28

HalfLimb == 2 ^ 14

\* the number of binary digits of v < 2^28
LimbBits(v) ==
    LET bits4(u) == IF u >= 4 THEN (IF u >= 8 THEN 4 ELSE 3) ELSE IF u >= 2 THEN 2 ELSE u
        bits7(u) == IF u >= 16 THEN 4 + bits4(u \div 16) ELSE bits4(u)
        bits14(u) == IF u >= 128 THEN 7 + bits7(u \div 128) ELSE bits7(u)
    IN  IF v >= HalfLimb THEN 14 + bits14(v \div HalfLimb) ELSE bits14(v)

WideBits(x) ==
    IF x[4] # 0 THEN 84 + LimbBits(x[4])
    ELSE IF x[3] # 0 THEN 56 + LimbBits(x[3])
    ELSE IF x[2] # 0 THEN 28 + LimbBits(x[2])
    ELSE LimbBits(x[1])

\* -1, 0, 1 as x < y, x = y, x > y
WideCmp(x, y) ==
    IF x[4] # y[4] THEN (IF x[4] < y[4] THEN -1 ELSE 1)
    ELSE IF x[3] # y[3] THEN (IF x[3] < y[3] THEN -1 ELSE 1)
    ELSE IF x[2] # y[2] THEN (IF x[2] < y[2] THEN -1 ELSE 1)
    ELSE IF x[1] # y[1] THEN (IF x[1] < y[1] THEN -1 ELSE 1)
    ELSE 0

\* x + y
WideAdd(x, y) ==
    LET s1 == x[1] + y[1]
        s2 == x[2] + y[2] + s1 \div Limb
        s3 == x[3] + y[3] + s2 \div Limb
        s4 == x[4] + y[4] + s3 \div Limb
    IN  << s1 % Limb, s2 % Limb, s3 % Limb, s4 % Limb >>

\* x - y for x >= y
WideSub(x, y) ==
    LET s1 == x[1] - y[1]
        s2 == x[2] - y[2] - (IF s1 < 0 THEN 1 ELSE 0)
        s3 == x[3] - y[3] - (IF s2 < 0 THEN 1 ELSE 0)
        s4 == x[4] - y[4] - (IF s3 < 0 THEN 1 ELSE 0)
    IN  << s1 % Limb, s2 % Limb, s3 % Limb, s4 % Limb >>

\* x * 2^n on four digits
WideShl(x, n) ==
    LET q == n \div 28
        low == 2 ^ (28 - (n % 28))
        up == 2 ^ (n % 28)
        at(i) == IF i >= 1 THEN x[i] ELSE 0
        digit(i) == ((at(i - q) % low) * up) + (at(i - q - 1) \div low)
    IN  << digit(1), digit(2), digit(3), digit(4) >>

\* floor(x / 2^n)
WideShr(x, n) ==
    LET q == n \div 28
        low == 2 ^ (n % 28)
        up == 2 ^ (28 - (n % 28))
        at(i) == IF i <= 4 THEN x[i] ELSE 0
        digit(i) == (at(i + q) \div low) + ((at(i + q + 1) % low) * up)
    IN  << digit(1), digit(2), digit(3), digit(4) >>

\* the lowest n binary digits of x are 0
LowZero(x, n) ==
    /\ \A i \in 1..(n \div 28) : x[i] = 0
    /\ n \div 28 < 4 => x[n \div 28 + 1] % (2 ^ (n % 28)) = 0

\* binary digit n (0 the lowest) of x
WideBit(x, n) == (x[n \div 28 + 1] \div (2 ^ (n % 28))) % 2

\* the digits in base 2^14, from position i on, of the sum of the columns
\* cols[j] * 2^(14 (j - 1)); the last digit takes all that is left
RECURSIVE Carried(_, _, _)
Carried(cols, i, carry) ==
    IF i = Len(cols) THEN << cols[i] + carry >>
    ELSE CHOOSE v \in {<< t % HalfLimb >> \o Carried(cols, i + 1, t \div HalfLimb) :
                          t \in {cols[i] + carry}} : TRUE

\* the columns of the product of the digits a and b in base 2^14
Columns(a, b) ==
    << a[1] * b[1],
       a[1] * b[2] + a[2] * b[1],
       a[1] * b[3] + a[2] * b[2] + a[3] * b[1],
       a[1] * b[4] + a[2] * b[3] + a[3] * b[2] + a[4] * b[1],
       a[2] * b[4] + a[3] * b[3] + a[4] * b[2],
       a[3] * b[4] + a[4] * b[3],
       a[4] * b[4] >>

\* the product of ahi * 2^28 + alo and bhi * 2^28 + blo, by halves of digits
WideMul(ahi, alo, bhi, blo) ==
    CHOOSE v \in {<< t[1] + t[2] * HalfLimb, t[3] + t[4] * HalfLimb,
                     t[5] + t[6] * HalfLimb, t[7] >> :
                     t \in {Carried(cols, 1, 0) :
                               cols \in {Columns(a, b) :
                                   a \in {<< alo % HalfLimb, alo \div HalfLimb,
                                             ahi % HalfLimb, ahi \div HalfLimb >>},
                                   b \in {<< blo % HalfLimb, blo \div HalfLimb,
                                             bhi % HalfLimb, bhi \div HalfLimb >>}}}} : TRUE

Zero == [s |-> 1, hi |-> 0, lo |-> 0, e |-> 0]

\* Round for the values x of X and bits of WideBits(X)
RoundWide(sign, x, bits, e, sticky) ==
    LET t == bits - 53
        exact(m) == [s |-> sign, hi |-> m[2], lo |-> m[1], e |-> e + t]
        rounded(q) ==
            IF ~(WideBit(x, t - 1) = 1 /\ (sticky \/ ~LowZero(x, t - 1) \/ (q[1] % 2) = 1))
            THEN [s |-> sign, hi |-> q[2], lo |-> q[1], e |-> e + t]
            ELSE IF q[1] + 1 < Limb THEN [s |-> sign, hi |-> q[2], lo |-> q[1] + 1, e |-> e + t]
            ELSE IF q[2] + 1 < 2 ^ 25 THEN [s |-> sign, hi |-> q[2] + 1, lo |-> 0, e |-> e + t]
            ELSE [s |-> sign, hi |-> 2 ^ 24, lo |-> 0, e |-> e + t + 1]
    IN  IF bits = 0 THEN Zero
        ELSE IF bits <= 53 THEN CHOOSE v \in {exact(m) : m \in {WideShl(x, 53 - bits)}} : TRUE
        ELSE CHOOSE v \in {rounded(q) : q \in {WideShr(x, t)}} : TRUE

\* the number nearest to sign * (X + f) * 2^e, where 0 < f < 1 when sticky and
\* f = 0 otherwise; a sticky X has at least 55 binary digits
Round(sign, X, e, sticky) ==
    CHOOSE v \in {RoundWide(sign, x, WideBits(x), e, sticky) : x \in {X}} : TRUE

\* the integer n, |n| < 2^28
Num(n) == Round(IF n < 0 THEN -1 ELSE 1, << (IF n < 0 THEN -n ELSE n), 0, 0, 0 >>, 0, FALSE)

NumNeg(a) == IF a = Zero THEN Zero ELSE [a EXCEPT !.s = -a.s]

\* |a| < |b|
MagLess(a, b) ==
    IF b = Zero THEN FALSE
    ELSE IF a = Zero THEN TRUE
    ELSE IF a.e # b.e THEN a.e < b.e
    ELSE IF a.hi # b.hi THEN a.hi < b.hi
    ELSE a.lo < b.lo

LessNumbers(a, b) ==
    LET sa == IF a = Zero THEN 0 ELSE a.s
        sb == IF b = Zero THEN 0 ELSE b.s
    IN  IF sa # sb THEN sa < sb
        ELSE IF sa = 1 THEN MagLess(a, b)
        ELSE IF sa = -1 THEN MagLess(b, a)
        ELSE FALSE

\* a < b
NumLess(a, b) == \E x \in {a}, y \in {b} : LessNumbers(x, y)

\* Math.max(a, b), Math.min(a, b)
NumMax(a, b) == CHOOSE v \in {IF LessNumbers(x, y) THEN y ELSE x : x \in {a}, y \in {b}} : TRUE

NumMin(a, b) == CHOOSE v \in {IF LessNumbers(y, x) THEN y ELSE x : x \in {a}, y \in {b}} : TRUE

\* big + small for |big| >= |small| > 0
AddOrdered(big, small) ==
    LET d == big.e - small.e
        sum(A, B) == Round(big.s, IF big.s = small.s THEN WideAdd(A, B) ELSE WideSub(A, B),
                           IF d > 55 THEN big.e - 2 ELSE small.e, d > 55)
    IN  CHOOSE v \in {sum(A, B) :
                         A \in {WideShl(<< big.lo, big.hi, 0, 0 >>, IF d > 55 THEN 2 ELSE d)},
                         B \in {IF d > 55 THEN << 1, 0, 0, 0 >>
                                ELSE << small.lo, small.hi, 0, 0 >>}} : TRUE

AddNumbers(a, b) ==
    IF b = Zero THEN a
    ELSE IF a = Zero THEN b
    ELSE CHOOSE v \in {AddOrdered(p[1], p[2]) :
                          p \in {IF MagLess(a, b) THEN << b, a >> ELSE << a, b >>}} : TRUE

\* a + b
NumAdd(a, b) == CHOOSE v \in {AddNumbers(x, y) : x \in {a}, y \in {b}} : TRUE

\* a - b
NumSub(a, b) == CHOOSE v \in {AddNumbers(x, NumNeg(y)) : x \in {a}, y \in {b}} : TRUE

MulNumbers(a, b) ==
    IF a = Zero \/ b = Zero THEN Zero
    ELSE Round(a.s * b.s, WideMul(a.hi, a.lo, b.hi, b.lo), a.e + b.e, FALSE)

\* a * b
NumMul(a, b) == CHOOSE v \in {MulNumbers(x, y) : x \in {a}, y \in {b}} : TRUE

\* one more binary digit of the quotient by dhi * 2^28 + dlo: st is
\* << remainder high, remainder low, quotient high, quotient low >>
DivisionStep(st, dhi, dlo) ==
    LET rhi == 2 * st[1] + st[2] \div (2 ^ 27)
        rlo == (2 * st[2]) % Limb
        qhi == 2 * st[3] + st[4] \div (2 ^ 27)
        qlo == (2 * st[4]) % Limb
    IN  IF rhi > dhi \/ (rhi = dhi /\ rlo >= dlo)
        THEN << rhi - dhi - (IF rlo < dlo THEN 1 ELSE 0), (rlo - dlo) % Limb, qhi, qlo + 1 >>
        ELSE << rhi, rlo, qhi, qlo >>

RECURSIVE LongDivision(_, _, _, _)
LongDivision(st, dhi, dlo, n) ==
    IF n = 0 THEN st
    ELSE CHOOSE v \in {LongDivision(next, dhi, dlo, n - 1) :
                          next \in {DivisionStep(st, dhi, dlo)}} : TRUE

\* a / b for b # 0: floor(a.m * 2^55 / b.m) has 55 or 56 binary digits
DivNumbers(a, b) ==
    LET first == a.hi > b.hi \/ (a.hi = b.hi /\ a.lo >= b.lo)
        start == IF first
                 THEN << a.hi - b.hi - (IF a.lo < b.lo THEN 1 ELSE 0), (a.lo - b.lo) % Limb, 0, 1 >>
                 ELSE << a.hi, a.lo, 0, 0 >>
    IN  IF a = Zero THEN Zero
        ELSE IF b.hi = 2 ^ 24 /\ b.lo = 0 THEN [a EXCEPT !.s = a.s * b.s, !.e = a.e - b.e - 52]
        ELSE CHOOSE v \in {Round(a.s * b.s, << st[4], st[3], 0, 0 >>, a.e - b.e - 55,
                                 st[1] # 0 \/ st[2] # 0) :
                              st \in {LongDivision(start, b.hi, b.lo, 55)}} : TRUE

NumDiv(a, b) == CHOOSE v \in {DivNumbers(x, y) : x \in {a}, y \in {b}} : TRUE

\* one more binary digit of a square root, for the next two binary digits
\* (pair) of the radicand: st is << root high, root low, remainder high,
\* remainder low >>
RootStep(st, pair) ==
    LET rhi == 4 * st[3] + st[4] \div (2 ^ 26)
        rlo == 4 * (st[4] % (2 ^ 26)) + pair
        thi == 4 * st[1] + st[2] \div (2 ^ 26)
        tlo == 4 * (st[2] % (2 ^ 26)) + 1
        phi == 2 * st[1] + st[2] \div (2 ^ 27)
        plo == (2 * st[2]) % Limb
    IN  IF rhi > thi \/ (rhi = thi /\ rlo >= tlo)
        THEN << phi, plo + 1, rhi - thi - (IF rlo < tlo THEN 1 ELSE 0), (rlo - tlo) % Limb >>
        ELSE << phi, plo, rhi, rlo >>

\* the root of (mhi * 2^28 + mlo) * 4^n: the k pairs of binary digits of the
\* radicand from the top, then n pairs of zeros
RECURSIVE LongRoot(_, _, _, _, _)
LongRoot(st, mhi, mlo, k, n) ==
    IF k = 0 /\ n = 0 THEN st
    ELSE LET pair == IF k > 14 THEN (mhi \div (2 ^ (2 * k - 30))) % 4
                     ELSE IF k > 0 THEN (mlo \div (2 ^ (2 * k - 2))) % 4
                     ELSE 0
         IN  CHOOSE v \in {LongRoot(next, mhi, mlo, IF k > 0 THEN k - 1 ELSE 0,
                                    IF k > 0 THEN n ELSE n - 1) :
                              next \in {RootStep(st, pair)}} : TRUE

\* Math.sqrt(a) for a >= 0: the root of a.m * 2^odd * 4^28 has 55 binary digits
SqrtNumber(a) ==
    LET odd == a.e % 2
        mhi == IF odd = 1 THEN 2 * a.hi + a.lo \div (2 ^ 27) ELSE a.hi
        mlo == IF odd = 1 THEN (2 * a.lo) % Limb ELSE a.lo
    IN  IF a = Zero THEN Zero
        ELSE CHOOSE v \in {Round(1, << st[2], st[1], 0, 0 >>, (a.e - odd) \div 2 - 28,
                                 st[3] # 0 \/ st[4] # 0) :
                              st \in {LongRoot(<< 0, 0, 0, 0 >>, mhi, mlo, 27, 28)}} : TRUE

NumSqrt(a) == CHOOSE v \in {SqrtNumber(x) : x \in {a}} : TRUE

(***************************************************************************)
(* The network view (NetworkView of app.js).  In the specifications of     *)
(* this view the variable engine holds the state of the view after         *)
(* initNetwork: the nodes with their pixel positions, the canvas size, pan *)
(* and zoom, the selected and hovered index,                               *)
(* visibleCats, showAllEdges, showLabels, the node shown in the detail     *)
(* popup (-1: popup cleared), the drag state and the number of times the   *)
(* listeners are registered; and, read by no handler, a record "press" of  *)
(* what happened since the last mousedown.  text names the last operation. *)
(* The canvas is at the window's origin, so that clientX and clientY are   *)
(* canvas coordinates.                                                     *)
(***************************************************************************)
\* D.network.nodes: two parcels 3 pixels apart, a third in the opposite corner
NetNodes ==
    << [id |-> "kml_1", lat |-> 100, lng |-> 0, category |-> "HighDensity", gfa |-> 10],
       [id |-> "kml_2", lat |-> 100, lng |-> 3, category |-> "Peripheral", gfa |-> 20],
       [id |-> "kml_3", lat |-> 0, lng |-> 100, category |-> "HighDensity", gfa |-> 30] >>

\* wrap.clientWidth, wrap.clientHeight: the size at page load and after a resize
CanvasSizes == << <<108, 108>>, <<216, 54>> >>

\* padFrac = 0.04
padFrac == NumDiv(Num(4), Num(100))

\* minLat, maxLat, minLng, maxLng of initNetwork: the bounds of the nodes, each
\* moved out by padFrac of the range
GeoBounds(ns) ==
    LET lats == {ns[i].lat : i \in 1..Len(ns)}
        lngs == {ns[i].lng : i \in 1..Len(ns)}
        latPad == NumMul(NumSub(Num(Max(lats)), Num(Min(lats))), padFrac)
        lngPad == NumMul(NumSub(Num(Max(lngs)), Num(Min(lngs))), padFrac)
    IN  [ minLat |-> NumSub(Num(Min(lats)), latPad), maxLat |-> NumAdd(Num(Max(lats)), latPad),
          minLng |-> NumSub(Num(Min(lngs)), lngPad), maxLng |-> NumAdd(Num(Max(lngs)), lngPad) ]

\* geoToPixel on a canvas of w by h
geoToPixel(b, w, h, lat, lng) ==
    [ x |-> NumMul(NumDiv(NumSub(Num(lng), b.minLng), NumSub(b.maxLng, b.minLng)), Num(w)),
      y |-> NumMul(NumSub(Num(1), NumDiv(NumSub(Num(lat), b.minLat),
                                         NumSub(b.maxLat, b.minLat))), Num(h)) ]

\* nodes[i].px, nodes[i].py = geoToPixel(nodes[i].lat, nodes[i].lng) for every node
WithPixels(ns, w, h) ==
    LET place(b) == [i \in 1..Len(ns) |->
            LET p == geoToPixel(b, w, h, ns[i].lat, ns[i].lng)
            IN  [id |-> ns[i].id, category |-> ns[i].category, gfa |-> ns[i].gfa,
                 lat |-> ns[i].lat, lng |-> ns[i].lng, px |-> p.x, py |-> p.y]]
    IN  CHOOSE v \in {SubSeq(place(b), 1, Len(ns)) : b \in {GeoBounds(ns)}} : TRUE

\* nodeRadius: Math.max(1.5, Math.max(2, Math.sqrt((n.gfa || 1000) / 1000) * 1.2)),
\* which is 2 up to a gfa of 2777, as for every node of the model
nodeRadius(n) ==
    CASE 144 * (IF n.gfa = 0 THEN 1000 ELSE n.gfa) <= 400000 -> Num(2)

\* isVisible: visibleCats[n.category] !== false
isVisible(view, n) ==
    n.category \in DOMAIN view.visibleCats => view.visibleCats[n.category]

\* fromScreen
fromScreen(view, sx, sy) ==
    [ x |-> NumDiv(NumSub(Num(sx), view.tx), view.k),
      y |-> NumDiv(NumSub(Num(sy), view.ty), view.k) ]

\* the body of the loop of netHitTest for the node at i, from the point p: whether
\* the node is visible and dist < r + hitThresh, and dist
HitOf(view, i, p, hitThresh) ==
    LET n == view.nodes[i]
        sum(dx, dy) == NumSqrt(NumAdd(NumMul(dx, dx), NumMul(dy, dy)))
        near(dist) == [near |-> NumLess(dist, NumAdd(nodeRadius(n), hitThresh)), dist |-> dist]
    IN  IF ~isVisible(view, n) THEN [near |-> FALSE, dist |-> Zero]
        ELSE CHOOSE v \in {near(dist) :
                              dist \in {sum(dx, dy) : dx \in {NumSub(n.px, p.x)},
                                                      dy \in {NumSub(n.py, p.y)}}} : TRUE

\* netHitTest: the index of the nearest visible node with dist < r + hitThresh
\* from the point fromScreen(mx, my), the first of them when several are equally
\* near, or -1, where hitThresh is Math.max(8, 12 / k)
netHitTest(view, mx, my) ==
    LET hits(p, hitThresh) ==
            SubSeq([i \in 1..Len(view.nodes) |-> HitOf(view, i, p, hitThresh)],
                   1, Len(view.nodes))
        best(hs) ==
            LET near == {i \in 1..Len(hs) : hs[i].near}
            IN  IF near = {} THEN -1
                ELSE Min({i \in near : \A j \in near : ~NumLess(hs[j].dist, hs[i].dist)}) - 1
    IN  CHOOSE v \in {best(hs) :
                         hs \in {hits(p, hitThresh) :
                                    p \in {fromScreen(view, mx, my)},
                                    hitThresh \in {NumMax(Num(8), NumDiv(Num(12), view.k))}}} : TRUE

\* selectNode that brings an index outside the node array to -1
selectNode_Normalised(view, idx) ==
    LET valid == idx >= 0 /\ idx < Len(view.nodes)
    IN  [view EXCEPT !.selected = IF valid THEN idx ELSE -1,
                     !.popup = IF valid THEN idx ELSE -1]

\* selectNode(idx): selected = idx; the popup is cleared for an index outside the
\* node array and shows the node otherwise
selectNode(view, idx) ==
    [view EXCEPT !.selected = idx,
                 !.popup = IF idx < 0 \/ idx >= Len(view.nodes) THEN -1 ELSE idx]

\* centerOnNode(idx)
centerOnNode(view, idx) ==
    IF idx < 0 \/ idx >= Len(view.nodes) THEN view
    ELSE LET n == view.nodes[idx + 1]
         IN  selectNode([view EXCEPT !.k = Num(4),
                                     !.tx = NumSub(NumDiv(Num(view.W), Num(2)),
                                                   NumMul(n.px, Num(4))),
                                     !.ty = NumSub(NumDiv(Num(view.H), Num(2)),
                                                   NumMul(n.py, Num(4)))], idx)

\* netResetView()
netResetView(view) ==
    [view EXCEPT !.tx = Num(0), !.ty = Num(0), !.k = Num(1),
                 !.selected = -1, !.hovered = -1, !.popup = -1]

\* toggleCat(cat, checked)
toggleCat(view, cat, checked) == [view EXCEPT !.visibleCats[cat] = checked]

\* netToggleEdges()
netToggleEdges(view) == [view EXCEPT !.showAllEdges = ~@]

\* netToggleLabels()
netToggleLabels(view) == [view EXCEPT !.showLabels = ~@]

\* initNetwork(): pixel positions for the current size of the wrap, every
\* category of CAT_COLORS visible, pan, zoom, selection and toggles reset, and
\* one more registration of the listeners; the popup and the drag state stay
initNetwork(view) ==
    [view EXCEPT !.nodes = WithPixels(@, view.W, view.H),
                 !.visibleCats = [cat \in DOMAIN @ |->
                                     IF cat \in {CAT_KEYS[i] : i \in 1..Len(CAT_KEYS)}
                                     THEN TRUE ELSE @[cat]],
                 !.tx = Num(0), !.ty = Num(0), !.k = Num(1),
                 !.selected = -1, !.hovered = -1,
                 !.showAllEdges = FALSE, !.showLabels = FALSE,
                 !.listeners = @ + 1]

\* the view after the first initNetwork of a page
InitialView ==
    initNetwork(
      [ nodes |-> WithPixels(NetNodes, CanvasSizes[1][1], CanvasSizes[1][2]),
        W |-> CanvasSizes[1][1], H |-> CanvasSizes[1][2],
        tx |-> Num(0), ty |-> Num(0), k |-> Num(1),
        selected |-> -1, hovered |-> -1, popup |-> -1,
        visibleCats |-> [cat \in {CAT_KEYS[i] : i \in 1..Len(CAT_KEYS)} |-> TRUE],
        showAllEdges |-> FALSE, showLabels |-> FALSE,
        dragging |-> FALSE, dragMoved |-> FALSE,
        dragStartX |-> 0, dragStartY |-> 0, dragStartTx |-> Num(0), dragStartTy |-> Num(0),
        listeners |-> 0,
        press |-> [down |-> FALSE, x |-> 0, y |-> 0, far |-> FALSE, left |-> FALSE] ])

\* the mousedown listener
OnMouseDown(view, x, y) ==
    [view EXCEPT !.dragging = TRUE, !.dragMoved = FALSE,
                 !.dragStartX = x, !.dragStartY = y,
                 !.dragStartTx = view.tx, !.dragStartTy = view.ty]

\* the mouseup listener
OnMouseUp(view, x, y) ==
    LET click(hit) == IF hit >= 0 THEN selectNode(view, hit) ELSE selectNode(view, -1)
        clicked == IF view.dragging /\ ~view.dragMoved
                   THEN CHOOSE v \in {click(hit) : hit \in {netHitTest(view, x, y)}} : TRUE
                   ELSE view
    IN  [clicked EXCEPT !.dragging = FALSE, !.dragMoved = FALSE]

\* a move counts only when it is far in both axes
IsDragMove_BothAxes(dx, dy) ==
    (dx > 2 \/ dx < -2) /\ (dy > 2 \/ dy < -2)

\* Math.abs(dx) > 2 || Math.abs(dy) > 2
IsDragMove(dx, dy) ==
    (dx > 2 \/ dx < -2) \/ (dy > 2 \/ dy < -2)

\* the mousemove listener: pan while dragging, hover hit test otherwise
OnMouseMove(view, x, y) ==
    LET dx == x - view.dragStartX
        dy == y - view.dragStartY
        hover(hit) == IF hit # view.hovered THEN [view EXCEPT !.hovered = hit] ELSE view
    IN  IF view.dragging
        THEN [view EXCEPT !.dragMoved = IF IsDragMove(dx, dy) THEN TRUE ELSE @,
                          !.tx = NumAdd(view.dragStartTx, Num(dx)),
                          !.ty = NumAdd(view.dragStartTy, Num(dy))]
        ELSE CHOOSE v \in {hover(hit) : hit \in {netHitTest(view, x, y)}} : TRUE

\* the mouseleave listener
OnMouseLeave(view) ==
    [view EXCEPT !.dragging = FALSE, !.hovered = -1]

\* the wheel listener: zoom by 1.15 (deltaY < 0) or 1 / 1.15 toward the pointer
OnWheel(view, x, y, deltaY) ==
    LET zoomFactor == IF deltaY < 0 THEN NumDiv(Num(115), Num(100))
                      ELSE NumDiv(Num(1), NumDiv(Num(115), Num(100)))
        newK == NumMax(NumDiv(Num(3), Num(10)), NumMin(NumMul(view.k, zoomFactor), Num(30)))
        zoomed(k2, ratio) ==
            [view EXCEPT !.tx = NumSub(Num(x), NumMul(NumSub(Num(x), view.tx), ratio)),
                         !.ty = NumSub(Num(y), NumMul(NumSub(Num(y), view.ty), ratio)),
                         !.k = k2]
    IN  CHOOSE v \in {zoomed(k2, NumDiv(k2, view.k)) : k2 \in {newK}} : TRUE

\* the resize listener of the window, the wrap now w by h
OnResize(view, w, h) ==
    [view EXCEPT !.W = w, !.H = h, !.nodes = WithPixels(@, w, h)]

(***************************************************************************)
(* The operations as steps.  A listener runs once for each time            *)
(* setupMouseEvents registered it.                                         *)
(***************************************************************************)
NetworkInit ==
    /\ engine' = initNetwork(engine)
    /\ text' = "init"

SelectNode(idx) ==
    /\ engine' = selectNode(engine, idx)
    /\ text' = "selectNode"

CenterOnNode(idx) ==
    /\ engine' = centerOnNode(engine, idx)
    /\ text' = "centerOnNode"

ResetView ==
    /\ engine' = netResetView(engine)
    /\ text' = "resetView"

ToggleCat(cat, checked) ==
    /\ engine' = toggleCat(engine, cat, checked)
    /\ text' = "toggleCat"

ToggleEdges ==
    /\ engine' = netToggleEdges(engine)
    /\ text' = "toggleEdges"

ToggleLabels ==
    /\ engine' = netToggleLabels(engine)
    /\ text' = "toggleLabels"

MouseDown(x, y) ==
    LET run[i \in 0..engine.listeners] ==
            IF i = 0 THEN engine ELSE OnMouseDown(run[i - 1], x, y)
    IN  /\ engine' = [run[engine.listeners] EXCEPT
                         !.press = [down |-> TRUE, x |-> x, y |-> y,
                                    far |-> FALSE, left |-> FALSE]]
        /\ text' = "mousedown"

MouseMove(x, y) ==
    LET run[i \in 0..engine.listeners] ==
            IF i = 0 THEN engine ELSE OnMouseMove(run[i - 1], x, y)
        far == \/ x - engine.press.x > 2 \/ engine.press.x - x > 2
               \/ y - engine.press.y > 2 \/ engine.press.y - y > 2
    IN  /\ engine' = [run[engine.listeners] EXCEPT !.press.far = @ \/ far]
        /\ text' = "mousemove"

MouseUp(x, y) ==
    LET run[i \in 0..engine.listeners] ==
            IF i = 0 THEN engine ELSE OnMouseUp(run[i - 1], x, y)
    IN  /\ engine' = [run[engine.listeners] EXCEPT !.press.down = FALSE]
        /\ text' = "mouseup"

MouseLeave ==
    LET run[i \in 0..engine.listeners] ==
            IF i = 0 THEN engine ELSE OnMouseLeave(run[i - 1])
    IN  /\ engine' = [run[engine.listeners] EXCEPT !.press.left = TRUE]
        /\ text' = "mouseleave"

Wheel(x, y, deltaY) ==
    LET run[i \in 0..engine.listeners] ==
            IF i = 0 THEN engine ELSE OnWheel(run[i - 1], x, y, deltaY)
    IN  /\ engine' = run[engine.listeners]
        /\ text' = "wheel"

Resize(w, h) ==
    LET run[i \in 0..engine.listeners] ==
            IF i = 0 THEN engine ELSE OnResize(run[i - 1], w, h)
    IN  /\ engine' = run[engine.listeners]
        /\ text' = "resize"

(***************************************************************************)
(* SpecSelection: every operation of the view in any order, up to MaxOps   *)
(* operations: the exported operations, with any integer from -2 to one    *)
(* beyond the node count as index, and the mouse, wheel and resize events  *)
(* at a few points.  Here result counts the operations made.               *)
(***************************************************************************)
MaxOps == 3

ClickPoints == {<<4, 4>>, <<6, 4>>, <<54, 54>>}

ToggledCats == {"HighDensity", "Peripheral"}

InitSelection ==
    /\ engine = InitialView
    /\ text = ""
    /\ result = [ops |-> 0]

NextSelection ==
    /\ result.ops < MaxOps
    /\ result' = [ops |-> result.ops + 1]
    /\ \/ NetworkInit
       \/ \E idx \in -2..(Len(NetNodes) + 1) : SelectNode(idx)
       \/ \E idx \in -2..(Len(NetNodes) + 1) : CenterOnNode(idx)
       \/ ResetView
       \/ \E cat \in ToggledCats, checked \in BOOLEAN : ToggleCat(cat, checked)
       \/ ToggleEdges
       \/ ToggleLabels
       \/ \E p \in ClickPoints : MouseDown(p[1], p[2])
       \/ \E p \in ClickPoints : MouseMove(p[1], p[2])
       \/ \E p \in ClickPoints : MouseUp(p[1], p[2])
       \/ MouseLeave
       \/ \E deltaY \in {-100, 100} : Wheel(4, 4, deltaY)
       \/ \E s \in 1..Len(CanvasSizes) : Resize(CanvasSizes[s][1], CanvasSizes[s][2])

SpecSelection == InitSelection /\ [][NextSelection]_vars

\* C29: after any sequence of operations of the view the selected index is -1
\* or a position of the node array, and after a selectNode call that cleared
\* the popup (an index below 0 or beyond the last node) selected is -1.
C29_SelectionValid ==
    /\ engine.selected \in -1..(Len(engine.nodes) - 1)
    /\ (text = "selectNode" /\ engine.popup = -1) => engine.selected = -1

\* selectNode was called with the node count as index: the popup is cleared
C29_Witness ==
    /\ text = "selectNode"
    /\ engine.selected >= Len(engine.nodes)
    /\ engine.popup = -1

\* a click selected the third node after the view was centred on it
C29_ClickWitness ==
    /\ text = "mouseup"
    /\ engine.selected = 2
    /\ engine.k = Num(4)

(***************************************************************************)
(* SpecMouse: up to MaxEvents events of the listeners of setupMouseEvents  *)
(* in any order: mousedown, mousemove and mouseup at a few points,         *)
(* mouseleave, wheel and resize, and calls of initNetwork, which registers *)
(* the listeners again.  Here result counts the events.                    *)
(***************************************************************************)
MaxEvents == 3

MousePoints == {<<4, 4>>, <<6, 4>>, <<7, 4>>, <<4, 7>>, <<30, 4>>}

InitMouse ==
    /\ engine = InitialView
    /\ text = ""
    /\ result = [ops |-> 0]

NextMouse ==
    /\ result.ops < MaxEvents
    /\ result' = [ops |-> result.ops + 1]
    /\ \/ \E p \in MousePoints : MouseDown(p[1], p[2])
       \/ \E p \in MousePoints : MouseMove(p[1], p[2])
       \/ \E p \in MousePoints : MouseUp(p[1], p[2])
       \/ MouseLeave
       \/ \E deltaY \in {-100, 100} : Wheel(4, 4, deltaY)
       \/ \E s \in 1..Len(CanvasSizes) : Resize(CanvasSizes[s][1], CanvasSizes[s][2])
       \/ NetworkInit

SpecMouse == InitMouse /\ [][NextMouse]_vars

\* C30: a mouseup leaves dragging and dragMoved cleared, and it changes the
\* selection or the popup only when a mousedown came since the last mouseup
\* and, since that mousedown, no mousemove was more than 2 pixels from the
\* press point in either axis and no mouseleave occurred; it then selects the
\* node under the pointer, or none.
C30_ClickVersusDrag ==
    [][ text' = "mouseup"
        => /\ ~engine'.dragging
           /\ ~engine'.dragMoved
           /\ (engine'.selected # engine.selected \/ engine'.popup # engine.popup)
              => /\ engine.press.down
                 /\ ~engine.press.far
                 /\ ~engine.press.left
                 /\ engine'.selected \in -1..(Len(engine.nodes) - 1)
                 /\ engine'.popup = engine'.selected ]_vars

\* a click that followed a move of 2 pixels selected a node
C30_Witness ==
    /\ text = "mouseup"
    /\ engine.selected >= 0
    /\ engine.tx = Num(2)
    /\ ~engine.press.far
    /\ ~engine.press.left

\* a press that moved 3 pixels was released over a node and selected nothing
C30_DragWitness ==
    /\ text = "mouseup"
    /\ engine.press.far
    /\ ~engine.press.left
    /\ engine.tx = Num(3)
    /\ engine.selected = -1

(***************************************************************************)
(* SpecHistogram: statistics of the energy metric over stores whose        *)
(* parcels carry every combination of energy values: a number in          *)
(* 0..MaxMetric, NaN, null, or no value at all.                            *)
(***************************************************************************)
MaxMetric == 10

\* the energy values of the parcels of a store
HistogramValues == {JsNum(v) : v \in 0..MaxMetric} \cup {JsNaN, JsNull, undefined}

InitHistogram ==
    /\ \E n \in 0..MaxNodes : \E xs \in [1..n -> HistogramValues] :
          engine = EngineOver([i \in 1..n |-> RankedParcel(i, xs[i])], <<>>)
    /\ text = ""
    /\ result = NoResult

NextHistogram ==
    /\ result = NoResult
    /\ \E t \in {"average energy"} : Query(t)

SpecHistogram == InitHistogram /\ [][NextHistogram]_vars

\* C20: the statistics of a metric come with a histogram of 12 bins over
\* [min, max] of the values: bin k (0..10) counts the values v with
\* k/12 <= (v - min)/(max - min) < (k+1)/12 and bin 11 those from 11/12 on, the
\* maximum included, so every value is in one bin and the counts add up to the
\* number of values; when all values are equal they are all in bin 0.
C20_HistogramBinning ==
    (Returned /\ result.type = "statistics")
    => LET histogram == result.chartConfig.data
           values == [i \in 1..Len(engine.nodes) |-> OrZero(Field(engine.nodes[i], "e"))]
           Values == {values[i] : i \in 1..Len(values)}
           range == Max(Values) - Min(Values)
           Offset(i) == values[i] - Min(Values)
       IN  /\ Len(histogram) = 12
           /\ Sum(histogram) = Len(values)
           /\ (values # <<>> /\ range > 0)
                => /\ \A k \in 0..10 :
                         histogram[k + 1] =
                            Cardinality({i \in 1..Len(values) :
                                           /\ k * range <= 12 * Offset(i)
                                           /\ 12 * Offset(i) < (k + 1) * range})
                   /\ histogram[12] =
                         Cardinality({i \in 1..Len(values) : 11 * range <= 12 * Offset(i)})
                   /\ histogram[12] >=
                         Cardinality({i \in 1..Len(values) : values[i] = Max(Values)})
           /\ (values # <<>> /\ range = 0)
                => /\ histogram[1] = Len(values)
                   /\ \A k \in 2..12 : histogram[k] = 0

\* over values 0, 10 and one in between, the 10 is counted in bin 11 and the
\* value in between in a bin of its own
C20_Witness ==
    /\ Returned
    /\ result.type = "statistics"
    /\ Len(engine.nodes) = 3
    /\ OrZero(Field(engine.nodes[1], "e")) = 0
    /\ OrZero(Field(engine.nodes[2], "e")) = 10
    /\ OrZero(Field(engine.nodes[3], "e")) = 5
    /\ result.chartConfig.data[1] = 1
    /\ result.chartConfig.data[7] = 1
    /\ result.chartConfig.data[12] = 1

\* C21: the statistics of a metric are taken over all nodes: Count is the number
\* of nodes, and a node whose value is missing, null, NaN or zero stands with 0
\* in total, mean, median, min and max.
C21_StatisticsCoverAll ==
    (Returned /\ result.type = "statistics")
    => LET html == result.html
           n == Len(engine.nodes)
           NumberOf(i) == LET d == engine.nodes[i]
                          IN  IF "e" \in DOMAIN d /\ d.e.t = "number" THEN d.e.v ELSE 0
           Below(x) == Cardinality({i \in 1..n : NumberOf(i) < x})
           UpTo(x) == Cardinality({i \in 1..n : NumberOf(i) <= x})
           \* the k-th smallest of the n numbers
           Smallest(k) == CHOOSE x \in {NumberOf(i) : i \in 1..n} : Below(x) < k /\ k <= UpTo(x)
       IN  /\ html.count = n
           /\ html.parcels = n
           /\ html.total = Sum([i \in 1..n |-> NumberOf(i)])
           /\ n > 0 =>
                /\ html.mean = [num |-> html.total, den |-> n]
                /\ html.min = Smallest(1)
                /\ html.max = Smallest(n)
                /\ html.median =
                     (IF n % 2 = 1 THEN [num |-> Smallest((n + 1) \div 2), den |-> 1]
                      ELSE [num |-> Smallest(n \div 2) + Smallest(n \div 2 + 1), den |-> 2])

\* statistics over three parcels, one without a value and two with positive
\* values: the count is 3 and the minimum 0
C21_Witness ==
    /\ Returned
    /\ result.type = "statistics"
    /\ Len(engine.nodes) = 3
    /\ "e" \notin DOMAIN engine.nodes[1]
    /\ OrZero(Field(engine.nodes[2], "e")) > 0
    /\ OrZero(Field(engine.nodes[3], "e")) > 0
    /\ result.html.count = 3
    /\ result.html.min = 0
    /\ result.html.median.num > 0

(***************************************************************************)
(* SpecMatch: the category matcher applied to the display labels, the keys  *)
(* and the aliases of the categories, alone and inside a question.          *)
(***************************************************************************)
MatchTexts ==
    {pre \o name \o post : pre \in {"", "compare ", "How many parcels are "},
                           name \in {CAT_LABELS[k] : k \in Categories} \cup Categories
                                      \cup {labelMap[i][1] : i \in 1..Len(labelMap)}
                                      \cup {"hello"},
                           post \in {"", "?", " parcels"}}

\* this._matchCategory(t)
Match(t) ==
    /\ text' = t
    /\ result' = [type |-> "match", category |-> _matchCategory(t)]
    /\ UNCHANGED engine

InitMatch ==
    /\ engine = EngineOver(<<>>, <<>>)
    /\ text = ""
    /\ result = NoResult

NextMatch ==
    /\ result = NoResult
    /\ \E t \in MatchTexts : Match(t)

SpecMatch == InitMatch /\ [][NextMatch]_vars

\* C3: the category matcher returns, for the display label of each of the six
\* categories, that category's own key; for 'Transit-Oriented Dense' it returns
\* TransitOrientedDense.
C3_LabelRoundTrip ==
    \A k \in Categories : (Answered /\ text = CAT_LABELS[k]) => result.category = k

\* the matcher returned TransitOriented for the label 'Transit-Oriented Dense'
C3_Witness ==
    /\ Answered
    /\ text = "Transit-Oriented Dense"
    /\ result.category = "TransitOriented"

====
